---- MODULE Spec2Model ----
(***************************************************************************)
(* Commit-message time tracker: the ingestion run of parse-commits (main), *)
(* its line grammar, date and duration resolution, alias normalization and *)
(* the classifier fallback with its cache and suggestion ledger.           *)
(*                                                                         *)
(* Text is modelled at the level of characters: a string is a sequence of  *)
(* one-character strings, so that trimming, splitting, lower-casing and    *)
(* the regular expressions of the source are computed, not assumed.        *)
(***************************************************************************)
EXTENDS Integers, Sequences, FiniteSets, TLC

(***************************************************************************)
(* Characters and JavaScript string primitives                             *)
(***************************************************************************)
UpperChars == <<"A","B","C","D","E","F","G","H","I","J","K","L","M","N","O","P","Q","R","S","T","U","V","W","X","Y","Z">>
LowerChars == <<"a","b","c","d","e","f","g","h","i","j","k","l","m","n","o","p","q","r","s","t","u","v","w","x","y","z">>
DigitChars == <<"0","1","2","3","4","5","6","7","8","9">>

InSeq(seq, c) == \E i \in 1..Len(seq) : seq[i] = c
IndexOf(seq, c) == CHOOSE i \in 1..Len(seq) : seq[i] = c

isSpace(c) == c \in {" ", "\t"}
isDigit(c) == InSeq(DigitChars, c)
isLetter(c) == InSeq(UpperChars, c) \/ InSeq(LowerChars, c)
digitValue(c) == IndexOf(DigitChars, c) - 1

toLowerChar(c) == IF InSeq(UpperChars, c) THEN LowerChars[IndexOf(UpperChars, c)] ELSE c
toLowerCase(s) == [i \in 1..Len(s) |-> toLowerChar(s[i])]

RECURSIVE trimStart(_)
trimStart(s) == IF s # <<>> /\ isSpace(Head(s)) THEN trimStart(Tail(s)) ELSE s
RECURSIVE trimEnd(_)
trimEnd(s) == IF s # <<>> /\ isSpace(s[Len(s)]) THEN trimEnd(SubSeq(s, 1, Len(s) - 1)) ELSE s
trim(s) == trimEnd(trimStart(s))

\* s.split(/\s+/).filter(Boolean)
RECURSIVE splitWsFrom(_, _, _)
splitWsFrom(s, cur, acc) ==
  IF s = <<>> THEN (IF cur = <<>> THEN acc ELSE Append(acc, cur))
  ELSE IF isSpace(Head(s))
       THEN splitWsFrom(Tail(s), <<>>, IF cur = <<>> THEN acc ELSE Append(acc, cur))
       ELSE splitWsFrom(Tail(s), Append(cur, Head(s)), acc)
splitWs(s) == splitWsFrom(s, <<>>, <<>>)

\* parts.join(sep)
RECURSIVE join(_, _)
join(parts, sep) ==
  IF parts = <<>> THEN <<>>
  ELSE IF Len(parts) = 1 THEN parts[1]
  ELSE parts[1] \o sep \o join(Tail(parts), sep)

\* String(n).padStart(width, '0') of a non-negative integer
RECURSIVE numberToString(_)
numberToString(n) ==
  IF n < 10 THEN <<DigitChars[n + 1]>>
  ELSE Append(numberToString(n \div 10), DigitChars[(n % 10) + 1])
RECURSIVE padStart(_, _)
padStart(s, width) == IF Len(s) >= width THEN s ELSE padStart(<<"0">> \o s, width)

\* Number(digits) of a string of decimal digits
RECURSIVE digitsToNumber(_)
digitsToNumber(s) ==
  IF s = <<>> THEN 0
  ELSE 10 * digitsToNumber(SubSeq(s, 1, Len(s) - 1)) + digitValue(s[Len(s)])

RECURSIVE pow10(_)
pow10(k) == IF k = 0 THEN 1 ELSE 10 * pow10(k - 1)

RECURSIVE gcd(_, _)
gcd(a, b) == IF b = 0 THEN a ELSE gcd(b, a % b)

\* a JavaScript number that is a non-negative fraction n/d, in lowest terms
Num(n, d) == LET g == gcd(n, d) IN [n |-> n \div g, d |-> d \div g]

\* the values null / undefined of the source
Null == [null |-> TRUE]
Undefined == <<"undefined">>
NoString == <<>>

(***************************************************************************)
(* lib/date.js                                                             *)
(***************************************************************************)
TZ == <<"A","s","i","a","/","T","o","k","y","o">>

isLeapYear(y) == (y % 4 = 0 /\ y % 100 # 0) \/ y % 400 = 0
daysInMonth(y, m) ==
  IF m = 2 THEN (IF isLeapYear(y) THEN 29 ELSE 28)
  ELSE IF m \in {4, 6, 9, 11} THEN 30 ELSE 31

prevDay(p) ==
  IF p.day > 1 THEN [p EXCEPT !.day = p.day - 1]
  ELSE IF p.month > 1
       THEN [year |-> p.year, month |-> p.month - 1, day |-> daysInMonth(p.year, p.month - 1)]
       ELSE [year |-> p.year - 1, month |-> 12, day |-> 31]
nextDay(p) ==
  IF p.day < daysInMonth(p.year, p.month) THEN [p EXCEPT !.day = p.day + 1]
  ELSE IF p.month < 12
       THEN [year |-> p.year, month |-> p.month + 1, day |-> 1]
       ELSE [year |-> p.year + 1, month |-> 1, day |-> 1]

\* the UTC offset, in hours, of the time zones of the model
Honolulu == <<"P","a","c","i","f","i","c","/","H","o","n","o","l","u","l","u">>
tzOffsetHours(timeZone) ==
  IF timeZone = TZ THEN 9 ELSE IF timeZone = Honolulu THEN 0 - 10 ELSE 0

\* commitDate is an instant: a UTC calendar date and hour
getTzParts(commitDate, timeZone) ==
  LET utc == [year |-> commitDate.year, month |-> commitDate.month, day |-> commitDate.day]
  IN IF commitDate.hour + tzOffsetHours(timeZone) >= 24 THEN nextDay(utc)
     ELSE IF commitDate.hour + tzOffsetHours(timeZone) < 0 THEN prevDay(utc)
     ELSE utc

datePartsToString(parts) ==
  padStart(numberToString(parts.year), 4) \o <<"-">> \o
  padStart(numberToString(parts.month), 2) \o <<"-">> \o
  padStart(numberToString(parts.day), 2)

\* a day shift that never leaves the month
addDays_WithinMonth(parts, deltaDays) == [parts EXCEPT !.day = parts.day + deltaDays]

\* Date.UTC(...) + deltaDays * 86400000 and back, on calendar dates
RECURSIVE addDays(_, _)
addDays(parts, deltaDays) ==
  IF deltaDays = 0 THEN parts
  ELSE IF deltaDays < 0 THEN addDays(prevDay(parts), deltaDays + 1)
  ELSE addDays(nextDay(parts), deltaDays - 1)

\* /^\d{4}-\d{2}-\d{2}$/
matchesDateShape(s) ==
  /\ Len(s) = 10
  /\ \A i \in {1, 2, 3, 4, 6, 7, 9, 10} : isDigit(s[i])
  /\ s[5] = "-" /\ s[8] = "-"

parseDateString(dateStr) ==
  IF ~matchesDateShape(dateStr) THEN Null
  ELSE [year |-> digitsToNumber(SubSeq(dateStr, 1, 4)),
        month |-> digitsToNumber(SubSeq(dateStr, 6, 7)),
        day |-> digitsToNumber(SubSeq(dateStr, 9, 10))]

(***************************************************************************)
(* parse-commits: parseDuration, resolveDateToken                          *)
(***************************************************************************)
HourUnits == { <<"h">>, <<"h","r">>, <<"h","o","u","r">>, <<"h","o","u","r","s">> }
MinuteUnits == { <<"m">>, <<"m","i","n">>, <<"m","i","n","s">>,
                 <<"m","i","n","u","t","e">>, <<"m","i","n","u","t","e","s">> }

\* the length of the longest prefix of s made of digits
RECURSIVE digitPrefixLen(_)
digitPrefixLen(s) ==
  IF s # <<>> /\ isDigit(Head(s)) THEN 1 + digitPrefixLen(Tail(s)) ELSE 0

\* a duration whose unit is taken for hours whatever it is
parseDuration_AsHours(token) ==
  LET n1 == digitPrefixLen(token)
      unit == toLowerCase(SubSeq(token, n1 + 1, Len(token)))
  IN IF n1 = 0 \/ unit \notin (HourUnits \cup MinuteUnits) THEN Null
     ELSE Num(digitsToNumber(SubSeq(token, 1, n1)), 1)

\* /^(\d+(?:\.\d+)?)(h|hr|hour|hours|m|min|mins|minute|minutes)$/i
parseDuration(token) ==
  LET n1 == digitPrefixLen(token)
      afterInt == SubSeq(token, n1 + 1, Len(token))
      hasFrac == /\ Len(afterInt) >= 2
                 /\ afterInt[1] = "."
                 /\ isDigit(afterInt[2])
      n2 == IF hasFrac THEN digitPrefixLen(Tail(afterInt)) ELSE 0
      unit == toLowerCase(IF hasFrac THEN SubSeq(afterInt, n2 + 2, Len(afterInt)) ELSE afterInt)
      intDigits == SubSeq(token, 1, n1)
      fracDigits == IF hasFrac THEN SubSeq(afterInt, 2, n2 + 1) ELSE <<>>
      numer == digitsToNumber(intDigits \o fracDigits)
      denom == pow10(Len(fracDigits))
  IN IF n1 = 0 \/ unit \notin (HourUnits \cup MinuteUnits) THEN Null
     ELSE IF unit \in HourUnits THEN Num(numer, denom)
     ELSE Num(numer, denom * 60)

resolveDateToken(token, commitDate, timeZone) ==
  IF token = Undefined \/ token = <<>> THEN NoString
  ELSE IF token = <<"t","o","d","a","y">>
       THEN datePartsToString(getTzParts(commitDate, timeZone))
  ELSE IF token = <<"y","e","s","t","e","r","d","a","y">>
       THEN datePartsToString(addDays(getTzParts(commitDate, timeZone), -1))
  ELSE LET parsed == parseDateString(token)
       IN IF parsed = Null THEN NoString ELSE datePartsToString(parsed)

(***************************************************************************)
(* parse-commits: parseTimeLine                                            *)
(***************************************************************************)
TimeMarker == <<"t","i","m","e",":">>

\* property names every JavaScript object literal inherits from Object.prototype
ObjectPrototypeProps ==
  { <<"c","o","n","s","t","r","u","c","t","o","r">>,
    <<"_","_","p","r","o","t","o","_","_">>,
    <<"t","o","S","t","r","i","n","g">>,
    <<"v","a","l","u","e","O","f">>,
    <<"h","a","s","O","w","n","P","r","o","p","e","r","t","y">> }

EmptyObject == [k \in {} |-> <<>>]

\* tagMeta[currentTag] is truthy: an own array, or a value inherited from Object.prototype
hasOwn(obj, key) == key \in DOMAIN obj
isInherited(obj, key) == ~hasOwn(obj, key) /\ key \in ObjectPrototypeProps

\* if (!tagMeta[tag]) tagMeta[tag] = []; tagMeta[tag].push(value)
\* (an inherited value is truthy and has no push: TypeError)
metaPush(st, tag, value) ==
  IF isInherited(st.tagMeta, tag) THEN [st EXCEPT !.threw = TRUE]
  ELSE [st EXCEPT !.tagMeta =
          [k \in DOMAIN st.tagMeta \cup {tag} |->
             IF k = tag
             THEN Append(IF hasOwn(st.tagMeta, tag) THEN st.tagMeta[tag] ELSE <<>>, value)
             ELSE st.tagMeta[k]]]

\* the index of the first ':' of s, or 0
RECURSIVE firstColon(_, _)
firstColon(s, i) ==
  IF i > Len(s) THEN 0 ELSE IF s[i] = ":" THEN i ELSE firstColon(s, i + 1)

\* one iteration of "for (const token of rest)"
scanToken(st, token) ==
  IF st.threw THEN st
  ELSE IF Head(token) = "#"
  THEN LET tagToken == Tail(token)
           c == firstColon(tagToken, 1)
           tagName == trim(IF c = 0 THEN tagToken ELSE SubSeq(tagToken, 1, c - 1))
           hasMetaParts == c # 0
           metaValue == IF c = 0 THEN <<>> ELSE trim(SubSeq(tagToken, c + 1, Len(tagToken)))
       IN IF tagName = <<>> THEN [st EXCEPT !.currentTag = <<>>]
          ELSE LET opened == [st EXCEPT !.rawTags = Append(st.rawTags, tagName),
                                        !.currentTag = tagName]
               IN IF hasMetaParts /\ metaValue # <<>>
                  THEN metaPush(opened, tagName, metaValue)
                  ELSE opened
  ELSE IF st.currentTag # <<>> THEN metaPush(st, st.currentTag, token)
  ELSE [st EXCEPT !.noteParts = Append(st.noteParts, token)]

RECURSIVE scanTokens(_, _)
scanTokens(st, rest) ==
  IF rest = <<>> THEN st ELSE scanTokens(scanToken(st, Head(rest)), Tail(rest))

\* /^time:\s*/i.test(trimmed)
isTimeLine(line) ==
  LET trimmed == trim(line)
  IN Len(trimmed) >= Len(TimeMarker) /\ toLowerCase(SubSeq(trimmed, 1, Len(TimeMarker))) = TimeMarker

\* a parser that takes a line with fewer than two tokens for no time: line
parseTimeLine_ShortIsNull(line) ==
  LET trimmed == trim(line)
      body == trimStart(SubSeq(trimmed, Len(TimeMarker) + 1, Len(trimmed)))
      tokens == splitWs(body)
      st == scanTokens([rawTags |-> <<>>, tagMeta |-> EmptyObject, noteParts |-> <<>>,
                        currentTag |-> <<>>, threw |-> FALSE],
                       SubSeq(tokens, 3, Len(tokens)))
  IN IF ~isTimeLine(line) \/ Len(tokens) < 2 THEN [kind |-> "null"]
     ELSE IF st.threw THEN [kind |-> "TypeError"]
     ELSE [kind |-> "parsed",
           dateToken |-> toLowerCase(tokens[1]),
           durationToken |-> tokens[2],
           rawTags |-> st.rawTags,
           tagMeta |-> st.tagMeta,
           note |-> join(st.noteParts, <<" ">>)]

parseTimeLine(line) ==
  LET trimmed == trim(line)
      body == trimStart(SubSeq(trimmed, Len(TimeMarker) + 1, Len(trimmed)))
      tokens == splitWs(body)
      st == scanTokens([rawTags |-> <<>>, tagMeta |-> EmptyObject, noteParts |-> <<>>,
                        currentTag |-> <<>>, threw |-> FALSE],
                       SubSeq(tokens, 3, Len(tokens)))
  IN IF ~isTimeLine(line) THEN [kind |-> "null"]
     ELSE IF Len(tokens) < 2
     THEN [kind |-> "error", dateToken |-> Undefined, durationToken |-> Undefined]
     ELSE IF st.threw THEN [kind |-> "TypeError"]
     ELSE [kind |-> "parsed",
           dateToken |-> toLowerCase(tokens[1]),
           durationToken |-> tokens[2],
           rawTags |-> st.rawTags,
           tagMeta |-> st.tagMeta,
           note |-> join(st.noteParts, <<" ">>)]

(***************************************************************************)
(* lib/tags.js                                                             *)
(***************************************************************************)
\* trim, strip one leading '#', lower-case, drop what is neither letter nor digit
normalizeToken(token) ==
  LET t == trim(token)
      u == toLowerCase(IF t # <<>> /\ Head(t) = "#" THEN Tail(t) ELSE t)
  IN SelectSeq(u, LAMBDA c : isLetter(c) \/ isDigit(c))

\* Map.set / Map.has / Map.get on a map from normalized tokens to canonical keys
mapHas(map, k) == k \in DOMAIN map
\* a set that keeps the first writer
mapSet_IfAbsent(map, k, v) ==
  IF k \in DOMAIN map THEN map ELSE [x \in DOMAIN map \cup {k} |-> IF x = k THEN v ELSE map[x]]
mapSet(map, k, v) == [x \in DOMAIN map \cup {k} |-> IF x = k THEN v ELSE map[x]]

\* aliases that replace what the map holds
RECURSIVE addAliases_Overwrite(_, _, _)
addAliases_Overwrite(map, key, aliases) ==
  IF aliases = <<>> THEN map
  ELSE LET normalized == normalizeToken(Head(aliases))
       IN addAliases_Overwrite(IF normalized # <<>>
                               THEN mapSet(map, normalized, key) ELSE map,
                               key, Tail(aliases))

RECURSIVE addAliases(_, _, _)
addAliases(map, key, aliases) ==
  IF aliases = <<>> THEN map
  ELSE LET normalized == normalizeToken(Head(aliases))
       IN addAliases(IF normalized # <<>> /\ ~mapHas(map, normalized)
                     THEN mapSet(map, normalized, key) ELSE map,
                     key, Tail(aliases))

\* tags: the entries of the configuration's "tags" object, in key order
RECURSIVE buildAliasMap(_, _)
buildAliasMap(map, tags) ==
  IF tags = <<>> THEN map
  ELSE LET key == Head(tags).key
           normalizedKey == normalizeToken(key)
           withKey == IF normalizedKey # <<>> THEN mapSet(map, normalizedKey, key) ELSE map
       IN buildAliasMap(addAliases(withKey, key, Head(tags).aliases), Tail(tags))

loadTags(parsed) ==
  [timezone |-> IF parsed.timezone # NoString THEN parsed.timezone ELSE TZ,
   canonical |-> [i \in 1..Len(parsed.tags) |-> parsed.tags[i].key],
   aliasMap |-> buildAliasMap(EmptyObject, parsed.tags)]

\* a normalization that keeps every match, repeated or not
RECURSIVE normalizeTags_KeepRepeats(_, _)
normalizeTags_KeepRepeats(rawTags, tagIndex) ==
  IF rawTags = <<>> THEN <<>>
  ELSE LET normalizedKey == normalizeToken(Head(rawTags))
           found == normalizedKey # <<>> /\ mapHas(tagIndex.aliasMap, normalizedKey)
       IN (IF found THEN <<tagIndex.aliasMap[normalizedKey]>> ELSE <<>>)
            \o normalizeTags_KeepRepeats(Tail(rawTags), tagIndex)

RECURSIVE normalizeTagsFrom(_, _, _)
normalizeTagsFrom(rawTags, tagIndex, normalized) ==
  IF rawTags = <<>> THEN normalized
  ELSE LET normalizedKey == normalizeToken(Head(rawTags))
           found == normalizedKey # <<>> /\ mapHas(tagIndex.aliasMap, normalizedKey)
           match == tagIndex.aliasMap[normalizedKey]
       IN normalizeTagsFrom(Tail(rawTags), tagIndex,
            IF found /\ ~InSeq(normalized, match) THEN Append(normalized, match) ELSE normalized)
normalizeTags(rawTags, tagIndex) == normalizeTagsFrom(rawTags, tagIndex, <<>>)

(***************************************************************************)
(* Persisted documents: whole-document read and overwrite                  *)
(***************************************************************************)
NoFile == [exists |-> FALSE]
File(data) == [exists |-> TRUE, data |-> data]

\* readOk: fs.readFileSync and JSON.parse both succeed
loadJsonIfExists(file, fallback, readOk) ==
  IF ~file.exists THEN fallback
  ELSE IF readOk THEN file.data
  ELSE fallback

(***************************************************************************)
(* normalize-tags.js: the classifier fallback                              *)
(***************************************************************************)
Uncategorized == <<"u","n","c","a","t","e","g","o","r","i","z","e","d">>

\* JSON.stringify({ rawTags, note })
cacheKeyOf(rawTags, note) == <<rawTags, note>>


\* a cache that is never read back
loadCache_Empty(file, readOk) == EmptyObject

loadCache(file, readOk) ==
  IF ~file.exists THEN EmptyObject
  ELSE IF readOk THEN file.data
  ELSE EmptyObject

loadSuggestions(file, readOk) ==
  IF ~file.exists THEN EmptyObject
  ELSE IF readOk THEN file.data
  ELSE EmptyObject

\* new Set(suggestions[key] || []), each non-blank string added trimmed, Array.from(set)
RECURSIVE addToSet(_, _)
addToSet(arr, values) ==
  IF values = <<>> THEN arr
  ELSE LET v == trim(Head(values))
       IN addToSet(IF v # <<>> /\ ~InSeq(arr, v) THEN Append(arr, v) ELSE arr, Tail(values))

\* newSuggestions: the response's new_alias_suggestions, with its entries in key
\* order when it is an object. The result is the ledger,
\* or threw when new Set(...) is given a value inherited from Object.prototype
\* (TypeError: not iterable).
RECURSIVE appendEntries(_, _)
appendEntries(suggestions, entries) ==
  IF entries = <<>> THEN [threw |-> FALSE, suggestions |-> suggestions]
  ELSE LET e == Head(entries)
       IN IF ~e.isArray THEN appendEntries(suggestions, Tail(entries))
          ELSE IF isInherited(suggestions, e.key) THEN [threw |-> TRUE]
          ELSE appendEntries(
                 [k \in DOMAIN suggestions \cup {e.key} |->
                    IF k = e.key
                    THEN addToSet(IF hasOwn(suggestions, e.key) THEN suggestions[e.key] ELSE <<>>,
                                  e.values)
                    ELSE suggestions[k]],
                 Tail(entries))
appendSuggestions(existing, newSuggestions) ==
  IF ~newSuggestions.isObject THEN [threw |-> FALSE, suggestions |-> existing]
  ELSE appendEntries(existing, newSuggestions.entries)

\* a classifier result field "confidence" is a number n/d or some other JSON value
isNumber(v) == DOMAIN v = {"n", "d"}
inUnitRange(v) == v.n >= 0 /\ v.n <= v.d

\* result: the JSON value decoded from the response text
sanitizeResult(result, canonical) ==
  IF ~result.isObject THEN Null
  ELSE IF ~InSeq(canonical, result.primary) THEN Null
  ELSE [primary |-> result.primary,
        secondary |-> IF result.secondaryIsArray
                      THEN SelectSeq(result.secondary,
                                     LAMBDA tag : InSeq(canonical, tag) /\ tag # result.primary)
                      ELSE <<>>,
        confidence |-> IF isNumber(result.confidence) /\ inUnitRange(result.confidence)
                       THEN result.confidence ELSE Num(0, 1),
        new_alias_suggestions |-> result.new_alias_suggestions]

\* postJson + parseGeminiResponse on the collaborator's response resp:
\* [threw |-> TRUE, message] or [threw |-> FALSE, result]
normalizeWithGemini(apiKey, resp) ==
  IF ~apiKey THEN [threw |-> TRUE, message |-> "GEMINI_API_KEY is not set", called |-> FALSE]
  ELSE IF resp.kind = "error" THEN [threw |-> TRUE, message |-> resp.message, called |-> TRUE]
  ELSE IF resp.status >= 400 THEN [threw |-> TRUE, message |-> "Gemini HTTP", called |-> TRUE]
  ELSE IF ~resp.isJson THEN [threw |-> TRUE, message |-> "Unexpected token", called |-> TRUE]
  ELSE IF ~resp.hasText
       THEN [threw |-> TRUE, message |-> "Gemini response missing text", called |-> TRUE]
  ELSE [threw |-> FALSE, result |-> resp.result, called |-> TRUE]

\* The call of normalizeTagsLLM on (canonical, rawTags, note) with the cache and
\* ledger documents as they are, the collaborator answering resp. The result
\* names how it returned (kind), the value returned, whether an external
\* request was issued, and the documents as it leaves them.
normalizeTagsLLM(canonical, rawTags, note, apiKey, resp, cacheDoc, suggDoc, readOk) ==
  LET cacheKey == cacheKeyOf(rawTags, note)
      cache == loadCache(cacheDoc, readOk)
      raw == normalizeWithGemini(apiKey, resp)
      sanitized == sanitizeResult(raw.result, canonical)
      newCache == [k \in DOMAIN cache \cup {cacheKey} |->
                     IF k = cacheKey THEN sanitized ELSE cache[k]]
      merged == appendSuggestions(loadSuggestions(suggDoc, readOk),
                                  sanitized.new_alias_suggestions)
      base == [kind |-> "", key |-> cacheKey, called |-> FALSE, message |-> "",
               value |-> Null, cacheDoc |-> cacheDoc, suggDoc |-> suggDoc]
  IN IF hasOwn(cache, cacheKey)
     THEN [base EXCEPT !.kind = "hit", !.value = cache[cacheKey]]
     ELSE IF raw.threw
     THEN [base EXCEPT !.kind = "threw", !.called = raw.called, !.message = raw.message]
     ELSE IF sanitized = Null
     THEN [base EXCEPT !.kind = "null", !.called = TRUE]
     ELSE IF merged.threw
     THEN [base EXCEPT !.kind = "threw", !.called = TRUE,
                       !.message = "object is not iterable",
                       !.cacheDoc = File(newCache)]
     ELSE [base EXCEPT !.kind = "ok", !.called = TRUE, !.value = sanitized,
                       !.cacheDoc = File(newCache), !.suggDoc = File(merged.suggestions)]

(***************************************************************************)
(* The world of the model: commit messages, tag configuration, classifier  *)
(* responses                                                               *)
(***************************************************************************)
NoSha == 0

MaxCommits == 2
MaxRuns == 2
\* how many times, in all, the classifier collaborator answers with something
\* other than a usable result
MaxOutages == 2

Work == <<"w","o","r","k">>
Study == <<"s","t","u","d","y">>

LineProse == <<"f","i","x"," ","t","h","e"," ","p","a","r","s","e","r">>
LineWork == <<"t","i","m","e",":"," ","t","o","d","a","y"," ","2","h"," ","#","w","o","r","k"," ","s","t","a","n","d","u","p">>
LineAlias == <<"T","i","m","e",":"," ","y","e","s","t","e","r","d","a","y"," ","9","0","m"," ","#","D","e","v"," ","#","s","t","u","d","y">>
LineBadDur == <<"t","i","m","e",":"," ","t","o","d","a","y"," ","a","b","c"," ","#","w","o","r","k">>
LineShort == <<"t","i","m","e",":">>
LineUnk == <<"t","i","m","e",":"," ","t","o","d","a","y"," ","3","0","m"," ","#","z","z">>
LineUnk2 == <<"t","i","m","e",":"," ","2","0","2","6","-","0","1","-","0","1"," ","1","h"," ","#","z","z">>
LineCrash == <<"t","i","m","e",":"," ","t","o","d","a","y"," ","1","h"," ","#","c","o","n","s","t","r","u","c","t","o","r"," ","x">>

\* commit.body.split(/\r?\n/) of the commit messages of the model
Bodies ==
  << <<LineProse, LineAlias, LineShort>>,
     <<LineBadDur, LineUnk>>,
     <<LineUnk, LineUnk2>>,
     <<LineShort, LineWork, LineCrash>> >>

\* author dates (%aI) as instants: 2025-12-31T20:00Z is 2026-01-01 in Asia/Tokyo
CommitDates == { [year |-> 2025, month |-> 12, day |-> 31, hour |-> 20] }

\* tags.yaml
TagConfigs ==
  { [timezone |-> NoString,
     tags |-> << [key |-> Work, aliases |-> << <<"d","e","v">> >>],
                 [key |-> Study, aliases |-> <<>>] >>] }

\* tags.yaml as it may be edited between two runs: the same tags, with or
\* without a timezone of its own
TagConfigsOverTime ==
  TagConfigs \cup {[c EXCEPT !.timezone = <<"U","T","C">>] : c \in TagConfigs}

\* the values of MAX_RECENT_COMMITS the environment may set: no window, and a
\* window shorter than the history
RecentWindows == {0, 1}

\* what the classifier collaborator may answer: a result with a canonical primary,
\* whose secondary list names the primary, an unknown tag and one canonical key
\* twice, and which suggests aliases for a canonical key and for a name that is
\* no key; a result whose primary is unknown; no result
GoodResult ==
  [isObject |-> TRUE, primary |-> Study,
   secondaryIsArray |-> TRUE, secondary |-> <<Work, Study, <<"z","z">>, Work>>,
   confidence |-> Num(9, 10),
   new_alias_suggestions |->
     [isObject |-> TRUE,
      entries |-> << [key |-> Study, isArray |-> TRUE,
                       values |-> << <<"z","z">>, <<" ","z","z">> >>],
                      [key |-> <<"z","z">>, isArray |-> TRUE,
                       values |-> << <<"z","z","z">> >>] >>]]
UnknownPrimaryResult ==
  [isObject |-> TRUE, primary |-> <<"z","z">>,
   secondaryIsArray |-> FALSE, secondary |-> <<>>,
   confidence |-> Num(1, 2),
   new_alias_suggestions |-> [isObject |-> FALSE]]
UsableResponses ==
  { [kind |-> "response", status |-> 200, isJson |-> TRUE, hasText |-> TRUE,
     result |-> GoodResult] }
Responses ==
  UsableResponses \cup
  { [kind |-> "error", message |-> "socket hang up"],
    [kind |-> "response", status |-> 200, isJson |-> FALSE],
    [kind |-> "response", status |-> 200, isJson |-> TRUE, hasText |-> TRUE,
     result |-> UnknownPrimaryResult] }

\* process.env: LLM_ENABLED of a run, and whether the secret GEMINI_API_KEY is set
Environments == [llmEnabled : BOOLEAN, apiKey : BOOLEAN]

(***************************************************************************)
(* State                                                                   *)
(***************************************************************************)
VARIABLES
  log,            \* the commit history, oldest first; a commit's sha is its position
  config,         \* tags.yaml
  MAX_RECENT_COMMITS,
  faults,         \* whether reads of existing documents may fail
  days,           \* data/<date>.json: date string -> daily document
  errorsFile,     \* data/_errors.json
  stateFile,      \* data/_state.json
  cacheFile,      \* .cache/normalize.json
  suggFile,       \* tags.suggestions.yaml
  pc,             \* "idle", "loop", "writeState", "writeErrors", "done", "crashed"
  env,            \* process.env of the run
  errors,         \* main: errors
  state,          \* main: state
  commits,        \* main: commits (their shas)
  ci, li,         \* position of the two loops: commit, line
  timeLineIndex,
  addedCount, skippedCount, errorCount,
  runs,           \* runs started
  replay,         \* the run started right after a run completed, nothing in between
  errorsLoaded,   \* how many records errors held when the run loaded it
  last,           \* what the last iteration of the line loop did
  llmLog,         \* the calls of normalizeTagsLLM of the run, in order
  outages,        \* unusable answers of the classifier so far
  call,           \* a library function called on its own: its arguments and its return
  rangeQueries,   \* the query `${last}..HEAD` of each run so far: "none", "ok", "failed"
  readFailed,     \* the run has failed to read or decode a document that exists
  pending,        \* the classifier requests sent and not yet answered: <<ci, li>> each
  snapshot,       \* the day document the process has read and not yet written back
  other,          \* the variables of a second process of the script, while it waits
  added           \* the ids some run has counted as added

vars == <<log, config, MAX_RECENT_COMMITS, faults, days, errorsFile, stateFile, cacheFile,
          suggFile, pc, env, errors, state, commits, ci, li, timeLineIndex,
          addedCount, skippedCount, errorCount, runs, replay, errorsLoaded, last,
          llmLog, outages, call, rangeQueries, readFailed, pending, snapshot, other,
          added>>

world == <<log, config, MAX_RECENT_COMMITS, faults, call>>
\* the variables of the program and of its storage
program == <<log, config, MAX_RECENT_COMMITS, faults, days, errorsFile, stateFile,
             cacheFile, suggFile, pc, env, errors, state, commits, ci, li, timeLineIndex,
             addedCount, skippedCount, errorCount, runs, replay, errorsLoaded, last,
             llmLog, outages, rangeQueries, readFailed, pending, snapshot, other,
             added>>
storage == <<days, errorsFile, stateFile, cacheFile, suggFile>>
counters == <<addedCount, skippedCount, errorCount>>
\* what only a step inside an iteration of the line loop, or a second process, changes
inner == <<pending, snapshot, other>>

EmptyState == [last_processed |-> NoSha, recent_commits |-> <<>>]
NoLast == [kind |-> "none"]
NoCall == [fn |-> "none"]
NoSnapshot == [taken |-> FALSE]
NoOther == [pc |-> "none"]

ReadOutcomes == IF faults THEN {TRUE, FALSE} ELSE {TRUE}

Init ==
  /\ log = <<>>
  /\ config \in TagConfigs
  /\ MAX_RECENT_COMMITS \in RecentWindows
  /\ faults = FALSE
  /\ days = EmptyObject
  /\ errorsFile = NoFile
  /\ stateFile = NoFile
  /\ cacheFile = NoFile
  /\ suggFile = NoFile
  /\ pc = "idle"
  /\ env \in {e \in Environments : ~e.llmEnabled}
  /\ errors = <<>>
  /\ state = EmptyState
  /\ commits = <<>>
  /\ ci = 0 /\ li = 0
  /\ timeLineIndex = 0
  /\ addedCount = 0 /\ skippedCount = 0 /\ errorCount = 0
  /\ runs = 0
  /\ replay = FALSE
  /\ errorsLoaded = 0
  /\ last = NoLast
  /\ llmLog = <<>>
  /\ outages = 0
  /\ call = NoCall
  /\ rangeQueries = <<>>
  /\ readFailed = FALSE
  /\ pending = <<>>
  /\ snapshot = NoSnapshot
  /\ other = NoOther
  /\ added = {}

(***************************************************************************)
(* parse-commits: main                                                     *)
(***************************************************************************)
Repo == "unknown"

\* loadTags() of each configuration, parseTimeLine(line) and parseDuration(token)
\* of each line of each commit message: computed once
TagIndexOf == [c \in TagConfigsOverTime |-> loadTags(c)]
ParsedLines ==
  [b \in 1..Len(Bodies) |-> [l \in 1..Len(Bodies[b]) |-> parseTimeLine(Bodies[b][l])]]
HoursOfLines ==
  [b \in 1..Len(Bodies) |->
     [l \in 1..Len(Bodies[b]) |->
        IF ParsedLines[b][l].kind \in {"parsed", "error"}
        THEN parseDuration(ParsedLines[b][l].durationToken) ELSE Null]]
NormalizedTagsOfLines ==
  [c \in TagConfigsOverTime |->
     [b \in 1..Len(Bodies) |->
        [l \in 1..Len(Bodies[b]) |->
           IF ParsedLines[b][l].kind = "parsed"
           THEN normalizeTags(ParsedLines[b][l].rawTags, TagIndexOf[c]) ELSE <<>>]]]

\* resolveDateToken(parsed.dateToken, commitDate, timeZone) of each line, for
\* each configuration and commit date: computed once
DateStringsOfLines ==
  [c \in TagConfigsOverTime |->
     [d \in CommitDates |->
        [b \in 1..Len(Bodies) |->
           [l \in 1..Len(Bodies[b]) |->
              IF ParsedLines[b][l].kind \in {"parsed", "error"}
              THEN resolveDateToken(ParsedLines[b][l].dateToken, d,
                                    IF TagIndexOf[c].timezone # NoString
                                    THEN TagIndexOf[c].timezone ELSE TZ)
              ELSE NoString]]]]

tagIndex == TagIndexOf[config]
timeZone == IF tagIndex.timezone # NoString THEN tagIndex.timezone ELSE TZ

\* git log, newest first: all of it, W..HEAD, -n N
parseCommitLog == [i \in 1..Len(log) |-> Len(log) + 1 - i]

\* a range that leaves out the commit right after the watermark
parseCommitLogSince_Open(w) == [i \in 1..(Len(log) - w - 1) |-> Len(log) + 1 - i]

parseCommitLogSince(w) == [i \in 1..(Len(log) - w) |-> Len(log) + 1 - i]
\* a window that is the whole history
parseCommitLogRecent_All(n) == parseCommitLog

parseCommitLogRecent(n) ==
  SubSeq(parseCommitLog, 1, IF n < Len(log) THEN n ELSE Len(log))

\* null as a list of commits: no commit has the sha NoSha
NoList == <<NoSha>>

\* safeParseCommitLog(`${last}..HEAD`): null when git fails on the range
safeParseCommitLog(w, gitOk) ==
  IF gitOk /\ w \in 1..Len(log) THEN parseCommitLogSince(w) ELSE NoList

\* git rev-parse HEAD
getHeadSha == IF log = <<>> THEN NoSha ELSE Len(log)

\* a merge that keeps every occurrence
addCommits_KeepAll(commitsBySha, list) ==
  IF list = NoList THEN commitsBySha ELSE commitsBySha \o list

\* commitsBySha after addCommits(list): insertion order, first occurrence kept
RECURSIVE addCommits(_, _)
addCommits(commitsBySha, list) ==
  IF list = NoList \/ list = <<>> THEN commitsBySha
  ELSE addCommits(IF InSeq(commitsBySha, Head(list)) THEN commitsBySha
                  ELSE Append(commitsBySha, Head(list)),
                  Tail(list))

\* lines 179-181: whether the range after the watermark was asked for, and
\* whether git answered
rangeQueryOf(st, gitOk) ==
  IF st.last_processed = NoSha THEN "none"
  ELSE IF safeParseCommitLog(st.last_processed, gitOk) # NoList THEN "ok"
  ELSE "failed"

recentEnabled == MAX_RECENT_COMMITS > 0

\* a selection that is the recent window only
selectCommits_RecentOnly(st, gitOk) ==
  IF recentEnabled THEN parseCommitLogRecent(MAX_RECENT_COMMITS) ELSE <<>>

\* a selection with no fallback when the range query fails
selectCommits_NoFallback(st, gitOk) ==
  LET sinceLast == safeParseCommitLog(st.last_processed, gitOk)
      ranged == IF st.last_processed # NoSha
                THEN addCommits(<<>>, sinceLast)
                ELSE addCommits(<<>>, parseCommitLog)
  IN IF recentEnabled THEN addCommits(ranged, parseCommitLogRecent(MAX_RECENT_COMMITS))
     ELSE ranged

\* lines 179-194: the commits of the run
selectCommits(st, gitOk) ==
  LET sinceLast == safeParseCommitLog(st.last_processed, gitOk)
      ranged == IF st.last_processed # NoSha
                THEN IF sinceLast # NoList THEN addCommits(<<>>, sinceLast)
                     ELSE addCommits(<<>>, parseCommitLog)
                ELSE addCommits(<<>>, parseCommitLog)
  IN IF recentEnabled THEN addCommits(ranged, parseCommitLogRecent(MAX_RECENT_COMMITS))
     ELSE ranged

linesOf(sha) == Bodies[log[sha].body]


\* an id counted from one
entryId_FromOne(sha, index) == <<"sha", sha, index + 1>>

entryId(sha, index) == <<"sha", sha, index>>


\* an error that is not recorded, and one that is recorded twice
recordError_Drop(errs, details) == errs
recordError_Twice(errs, details) == Append(Append(errs, details), details)

recordError(errs, details) == Append(errs, details)

dayFile(dateString) == IF dateString \in DOMAIN days THEN File(days[dateString]) ELSE NoFile


\* a check of the last entry only, and no check
alreadyStored_LastOnly(daily, id) ==
  daily.entries # <<>> /\ daily.entries[Len(daily.entries)].id = id
alreadyStored_Never(daily, id) == FALSE

alreadyStored(daily, id) == \E i \in 1..Len(daily.entries) : daily.entries[i].id = id


\* a write that keeps the new entry only
pushEntry_Replace(daily, entry) == [daily EXCEPT !.entries = <<entry>>]

pushEntry(daily, entry) == [daily EXCEPT !.entries = Append(@, entry)]


\* a classifier asked whatever LLM_ENABLED says, and one asked whatever the
\* alias lookup found
needsClassifier_Always(normalizedTags, llmEnabled) == normalizedTags = <<>>
needsClassifier_Enabled(normalizedTags, llmEnabled) == llmEnabled

needsClassifier(normalizedTags, llmEnabled) == normalizedTags = <<>> /\ llmEnabled

\* a cached result that is not used
normalizedOf_FreshOnly(normalizedTags, llm) ==
  IF llm # Null /\ llm.kind = "ok"
  THEN [primary |-> llm.value.primary, secondary |-> llm.value.secondary,
        confidence |-> llm.value.confidence, method |-> "llm"]
  ELSE [primary |-> IF normalizedTags # <<>> THEN normalizedTags[1] ELSE Uncategorized,
        secondary |-> IF normalizedTags # <<>> THEN Tail(normalizedTags) ELSE <<>>,
        confidence |-> IF normalizedTags # <<>> THEN Num(1, 1) ELSE Num(0, 1),
        method |-> IF normalizedTags # <<>> THEN "alias" ELSE "fallback"]

\* lines 222-239: the normalized block of an entry; llm is the classifier's
\* return, or Null when it was not asked
normalizedOf(normalizedTags, llm) ==
  IF llm # Null /\ llm.kind \in {"hit", "ok"}
  THEN [primary |-> llm.value.primary,
        secondary |-> llm.value.secondary,
        confidence |-> llm.value.confidence,
        method |-> "llm"]
  ELSE [primary |-> IF normalizedTags # <<>> THEN normalizedTags[1] ELSE Uncategorized,
        secondary |-> IF normalizedTags # <<>> THEN Tail(normalizedTags) ELSE <<>>,
        confidence |-> IF normalizedTags # <<>> THEN Num(1, 1) ELSE Num(0, 1),
        method |-> IF normalizedTags # <<>> THEN "alias" ELSE "fallback"]

\* the variables of main when no process runs
NoProcess ==
  /\ errors' = <<>>
  /\ state' = EmptyState
  /\ commits' = <<>>
  /\ ci' = 0 /\ li' = 0
  /\ timeLineIndex' = 0
  /\ addedCount' = 0 /\ skippedCount' = 0 /\ errorCount' = 0
  /\ errorsLoaded' = 0
  /\ replay' = FALSE
  /\ last' = NoLast
  /\ llmLog' = <<>>
  /\ call' = NoCall
  /\ readFailed' = FALSE

\* a commit is added between runs (while a run can still follow to read it)
CommitWithin(maxRuns) ==
  /\ pc \in {"idle", "done", "crashed"}
  /\ Len(log) < MaxCommits
  /\ runs < maxRuns
  /\ \E b \in 1..Len(Bodies), d \in CommitDates :
       log' = Append(log, [sha |-> Len(log) + 1, dateStr |-> d, body |-> b])
  /\ pc' = "idle"
  /\ NoProcess
  /\ UNCHANGED <<config, MAX_RECENT_COMMITS, faults, storage, env, runs, outages,
                 rangeQueries, inner, added>>

Commit == CommitWithin(MaxRuns)

\* lines 151-194; the script runs from a checkout, which has a commit.
\* LLM_ENABLED of the run is one of llmSettings
StartRunIn(llmSettings, maxRuns) ==
  /\ pc \in {"idle", "done", "crashed"}
  /\ log # <<>>
  /\ runs < maxRuns
  /\ \E e \in {x \in Environments : x.apiKey = env.apiKey /\ x.llmEnabled \in llmSettings},
        okErrors \in ReadOutcomes, okState \in ReadOutcomes, gitOk \in BOOLEAN :
       LET loadedErrors == loadJsonIfExists(errorsFile, <<>>, okErrors)
           loadedState == loadJsonIfExists(stateFile, EmptyState, okState)
           selected == selectCommits(loadedState, gitOk)
       IN /\ env' = e
          /\ errors' = loadedErrors
          /\ errorsLoaded' = Len(loadedErrors)
          /\ state' = loadedState
          /\ commits' = selected
          /\ rangeQueries' = Append(rangeQueries, rangeQueryOf(loadedState, gitOk))
          /\ readFailed' = (\/ errorsFile.exists /\ ~okErrors
                            \/ stateFile.exists /\ ~okState)
          /\ IF selected = <<>>
             THEN pc' = "writeState" /\ ci' = 0 /\ li' = 0
             ELSE pc' = "loop" /\ ci' = 1 /\ li' = 1
  /\ timeLineIndex' = 0
  /\ addedCount' = 0 /\ skippedCount' = 0 /\ errorCount' = 0
  /\ runs' = runs + 1
  /\ replay' = (pc = "done")
  /\ last' = NoLast
  /\ llmLog' = <<>>
  /\ UNCHANGED <<world, storage, outages, inner, added>>

StartRun == StartRunIn(BOOLEAN, MaxRuns)

\* "continue" or the end of the loop body: the next line, the next commit, or
\* the end of both loops
Advance(nextIndex) ==
  IF li < Len(linesOf(commits[ci]))
  THEN /\ li' = li + 1 /\ ci' = ci /\ timeLineIndex' = nextIndex /\ pc' = "loop"
  ELSE IF ci < Len(commits)
  THEN /\ li' = 1 /\ ci' = ci + 1 /\ timeLineIndex' = 0 /\ pc' = "loop"
  ELSE /\ li' = 0 /\ ci' = 0 /\ timeLineIndex' = 0 /\ pc' = "writeState"

\* lines 201-291: one iteration of the line loop, taken up at the place `at`;
\* the day document is the one the process holds when fromSnapshot, else it is
\* read from the store
ProcessLineFrom(at, fromSnapshot) ==
  /\ pc = at
  /\ LET commit == log[commits[ci]]
         line == linesOf(commits[ci])[li]
         parsed == ParsedLines[commit.body][li]
         id == entryId(commit.sha, timeLineIndex)
         dateString == DateStringsOfLines[config][commit.dateStr][commit.body][li]
         hours == HoursOfLines[commit.body][li]
         normalizedTags == NormalizedTagsOfLines[config][commit.body][li]
         asks == needsClassifier(normalizedTags, env.llmEnabled)
     IN IF parsed.kind = "null"
        THEN /\ Advance(timeLineIndex)
             /\ last' = [kind |-> "continue"]
             /\ UNCHANGED <<storage, errors, counters, llmLog, outages, readFailed, added>>
        ELSE IF parsed.kind = "TypeError"
        THEN /\ pc' = "crashed"
             /\ last' = [kind |-> "TypeError"]
             /\ UNCHANGED <<storage, errors, counters, llmLog, outages, ci, li,
                            timeLineIndex, readFailed, added>>
        ELSE IF dateString = NoString \/ hours = Null
        THEN /\ errors' = recordError(errors,
                            [id |-> id, commit |-> commit.sha, line |-> line,
                             reason |-> "invalid date or duration", message |-> ""])
             /\ errorCount' = errorCount + 1
             /\ Advance(timeLineIndex + 1)
             /\ last' = [kind |-> "error", id |-> id]
             /\ UNCHANGED <<storage, addedCount, skippedCount, llmLog, outages, readFailed,
                            added>>
        ELSE \E resp \in (IF outages < MaxOutages THEN Responses ELSE UsableResponses),
                okCache \in ReadOutcomes, okDay \in ReadOutcomes :
          LET llm == IF asks
                     THEN normalizeTagsLLM(tagIndex.canonical, parsed.rawTags, parsed.note,
                                           env.apiKey, resp, cacheFile, suggFile, okCache)
                     ELSE Null
              threw == asks /\ llm.kind = "threw"
              normalized == normalizedOf(normalizedTags, llm)
              daily == IF fromSnapshot THEN snapshot.daily
                       ELSE loadJsonIfExists(dayFile(dateString),
                              [date |-> dateString, timezone |-> timeZone, entries |-> <<>>],
                              okDay)
              entry == [id |-> id, at |-> commit.dateStr, hours |-> hours,
                        raw |-> [date_token |-> parsed.dateToken,
                                 duration_token |-> parsed.durationToken,
                                 tags |-> parsed.rawTags,
                                 tag_meta |-> parsed.tagMeta,
                                 note |-> parsed.note],
                        normalized |-> normalized,
                        source |-> [repo |-> Repo, commit |-> commit.sha]]
              stored == alreadyStored(daily, id)
          IN /\ IF asks
                THEN /\ cacheFile' = llm.cacheDoc
                     /\ suggFile' = llm.suggDoc
                     /\ llmLog' = Append(llmLog, [key |-> llm.key, kind |-> llm.kind,
                                                  called |-> llm.called,
                                                  message |-> llm.message])
                     /\ outages' = IF llm.called /\ llm.kind \in {"threw", "null"}
                                   THEN outages + 1 ELSE outages
                ELSE UNCHANGED <<cacheFile, suggFile, llmLog, outages>>
             /\ errors' = IF threw
                          THEN recordError(errors,
                                 [id |-> id, commit |-> commit.sha, line |-> line,
                                  reason |-> "llm_error", message |-> llm.message])
                          ELSE errors
             /\ IF stored
                THEN /\ skippedCount' = skippedCount + 1
                     /\ UNCHANGED <<days, addedCount, added>>
                ELSE /\ days' = [d \in DOMAIN days \cup {dateString} |->
                                   IF d = dateString THEN pushEntry(daily, entry) ELSE days[d]]
                     /\ addedCount' = addedCount + 1
                     /\ added' = added \cup {id}
                     /\ UNCHANGED skippedCount
             /\ Advance(timeLineIndex + 1)
             /\ last' = [kind |-> IF stored THEN "skipped" ELSE "added", id |-> id,
                         date |-> dateString, normalized |-> normalized,
                         llm |-> IF asks THEN llm.kind ELSE "none",
                         message |-> IF asks THEN llm.message ELSE ""]
             /\ readFailed' = (readFailed \/ (dayFile(dateString).exists /\ ~okDay))
             /\ UNCHANGED <<errorsFile, stateFile, errorCount>>
  /\ pending' = <<>>
  /\ snapshot' = NoSnapshot
  /\ UNCHANGED <<world, env, state, commits, runs, replay, errorsLoaded, rangeQueries, other>>

ProcessLine == ProcessLineFrom("loop", FALSE)

\* the iteration at hand gets as far as postJson: its line has a date and a
\* duration, no alias matched, the fallback is enabled, the cache has no answer
\* and GEMINI_API_KEY is set (lines 227-232; normalize-tags 384-395, 358-382)
IssuesRequest ==
  LET commit == log[commits[ci]]
      parsed == ParsedLines[commit.body][li]
  IN /\ parsed.kind = "parsed"
     /\ DateStringsOfLines[config][commit.dateStr][commit.body][li] # NoString
     /\ HoursOfLines[commit.body][li] # Null
     /\ needsClassifier(NormalizedTagsOfLines[config][commit.body][li], env.llmEnabled)
     /\ env.apiKey
     /\ ~hasOwn(loadCache(cacheFile, TRUE), cacheKeyOf(parsed.rawTags, parsed.note))

\* a request that is sent while the loop goes on with the line
Request_NoAwait ==
  /\ pc = "loop"
  /\ IssuesRequest
  /\ pending' = Append(pending, <<ci, li>>)
  /\ Advance(timeLineIndex + 1)
  /\ UNCHANGED <<world, storage, env, errors, state, commits, counters, runs, replay,
                 errorsLoaded, last, llmLog, outages, rangeQueries, readFailed, snapshot,
                 other, added>>

\* await normalizeTagsLLM(...): the request is sent and main is suspended
Request ==
  /\ pc = "loop"
  /\ IssuesRequest
  /\ pending' = Append(pending, <<ci, li>>)
  /\ pc' = "awaiting"
  /\ UNCHANGED <<world, storage, env, errors, state, commits, ci, li, timeLineIndex,
                 counters, runs, replay, errorsLoaded, last, llmLog, outages, rangeQueries,
                 readFailed, snapshot, other, added>>

\* the promise settles and the iteration goes on from line 233 or 240
Response == ProcessLineFrom("awaiting", FALSE)

\* an iteration that sends no request
Direct == pc = "loop" /\ ~IssuesRequest /\ ProcessLine

\* lines 294-303
WriteState ==
  /\ pc = "writeState"
  /\ LET headSha == getHeadSha
         recentForState == IF recentEnabled THEN parseCommitLogRecent(MAX_RECENT_COMMITS)
                           ELSE <<>>
     IN stateFile' = File([last_processed |-> IF headSha # NoSha THEN headSha
                                              ELSE state.last_processed,
                           recent_commits |-> recentForState])
  /\ pc' = "writeErrors"
  /\ UNCHANGED <<world, days, errorsFile, cacheFile, suggFile, env, errors, state, commits,
                 ci, li, timeLineIndex, counters, runs, replay, errorsLoaded, last,
                 llmLog, outages, rangeQueries, readFailed, inner, added>>

\* lines 305-306: the error log is written and the summary printed
WriteErrors ==
  /\ pc = "writeErrors"
  /\ errorsFile' = File(errors)
  /\ pc' = "done"
  /\ UNCHANGED <<world, days, stateFile, cacheFile, suggFile, env, errors, state, commits,
                 ci, li, timeLineIndex, counters, runs, replay, errorsLoaded, last,
                 llmLog, outages, rangeQueries, readFailed, inner, added>>

(***************************************************************************)
(* The library functions called on their own, before any commit is read    *)
(***************************************************************************)
Dev == <<"d","e","v">>

\* tags.yaml documents with two keys, in either order, where the normalized form
\* of a key may be that of an alias of the other key, or of the other key, or
\* empty
KeyPool == {Work, Dev, <<"D","e","-","v">>, <<"-","-">>}
AliasPool == {<<>>, <<Dev>>, << <<"#","D","E","V">>, Work >>, << <<"j","o","b">>, <<"W","o","r","k"," ">> >>}
PrecedenceConfigs ==
  {[timezone |-> NoString,
    tags |-> << [key |-> k1, aliases |-> a1], [key |-> k2, aliases |-> a2] >>] :
     <<k1, k2, a1, a2>> \in {q \in KeyPool \X KeyPool \X AliasPool \X AliasPool : q[1] # q[2]}}
LookupTokens == {Work, <<"D","E","V">>, <<"#","j","o","b">>} \cup KeyPool

\* loadTags on a tags.yaml document, then normalizeTags on one raw tag
CallNormalizeTags ==
  /\ log = <<>> /\ call = NoCall
  /\ \E c \in PrecedenceConfigs, t \in LookupTokens :
       call' = [fn |-> "normalizeTags", config |-> c, rawTags |-> <<t>>,
                tagIndex |-> loadTags(c),
                returned |-> normalizeTags(<<t>>, loadTags(c))]
  /\ UNCHANGED program

\* raw tag lists: spellings of the keys and of an alias, an unknown tag, a tag
\* of punctuation only
RawTagPool == { Work, <<"#","D","e","v">>, <<"S","T","U","D","Y">>, <<"z","z">>,
                <<"-","-">>, <<"W","o","-","r","k">> }
ExampleTags == << <<"z","z">>, <<"#","D","e","v">>, <<"S","T","U","D","Y">>, Work, Study >>
RawTagLists ==
  {<<>>} \cup {<<a>> : a \in RawTagPool} \cup (RawTagPool \X RawTagPool)
    \cup (RawTagPool \X RawTagPool \X RawTagPool) \cup {ExampleTags}

\* normalizeTags on a raw tag list, with the tag index of tags.yaml
CallNormalizeTagList ==
  /\ log = <<>> /\ call = NoCall
  /\ \E rawTags \in RawTagLists :
       call' = [fn |-> "normalizeTagList", rawTags |-> rawTags,
                returned |-> normalizeTags(rawTags, tagIndex)]
  /\ UNCHANGED program

\* what may follow the duration on a time: line: tags, a bare '#', words, and
\* the line of the README's example
Youtube == <<"y","o","u","t","u","b","e">>
Writing == <<"w","r","i","t","i","n","g">>
ExampleRest ==
  << <<"#">> \o Youtube, <<"a","n","a","l","y","z","e">>, <<"f","i","g","h","t">>, <<"f","o","o","t","a","g","e">>, <<"#">> \o Writing, <<"o","u","t","l","i","n","e">> >>
RestPool == { <<"#","a">>, <<"#","b">>, <<"#">>, <<"x">>, <<"y">>, <<"#","c","o","n","s","t","r","u","c","t","o","r">> }
RestSeqs ==
  {<<>>} \cup {<<a>> : a \in RestPool} \cup (RestPool \X RestPool)
    \cup (RestPool \X RestPool \X RestPool) \cup {ExampleRest}
LinePrefix == <<"t","i","m","e",":"," ","t","o","d","a","y"," ","1","h">>

\* parseTimeLine on "time: today 1h" followed by the tokens of rest
CallParseTimeLine ==
  /\ log = <<>> /\ call = NoCall
  /\ \E rest \in RestSeqs :
       LET line == IF rest = <<>> THEN LinePrefix
                   ELSE LinePrefix \o <<" ">> \o join(rest, <<" ">>)
       IN call' = [fn |-> "parseTimeLine", rest |-> rest, line |-> line,
                   returned |-> parseTimeLine(line)]
  /\ UNCHANGED program

\* duration tokens: what stands for the number, followed by what stands for the unit
DurationNumbers ==
  { <<"2">>,
    <<"9","0">>,
    <<"3">>,
    <<"1",".","5">>,
    <<"0">>,
    <<"0","0","7">>,
    <<"0",".","2","5">>,
    <<>>,
    <<"1",".">>,
    <<".","5">>,
    <<"-","1">>,
    <<"1","e","3">>,
    <<"2",",","5">> }
DurationUnits ==
  { <<"h">>,
    <<"h","r">>,
    <<"h","o","u","r">>,
    <<"h","o","u","r","s">>,
    <<"m">>,
    <<"m","i","n">>,
    <<"m","i","n","s">>,
    <<"m","i","n","u","t","e">>,
    <<"m","i","n","u","t","e","s">>,
    <<"H">>,
    <<"H","o","u","r","s">>,
    <<"M","I","N">>,
    <<"h","O","u","R">>,
    <<"M","i","n","u","t","e","s">>,
    <<>>,
    <<"h","r","s">>,
    <<"d">>,
    <<"m","h">>,
    <<"h",".">>,
    <<"s">> }

\* parseDuration on a token
CallParseDuration ==
  /\ log = <<>> /\ call = NoCall
  /\ \E number \in DurationNumbers, unit \in DurationUnits :
       call' = [fn |-> "parseDuration", number |-> number, unit |-> unit,
                returned |-> parseDuration(number \o unit)]
  /\ UNCHANGED program

\* commit instants (UTC date and hour) around the ends of months and years, in
\* leap and common years, and the time zones a configuration may name
InstantDays ==
  { <<2025, 12, 31>>, <<2026, 1, 1>>, <<2024, 2, 29>>, <<2024, 3, 1>>, <<2025, 2, 28>>,
    <<2025, 3, 1>>, <<2000, 3, 1>>, <<2100, 3, 1>>, <<2026, 5, 1>>, <<2026, 6, 15>> }
InstantHours == {0, 9, 10, 14, 15, 23}
Instants ==
  { [year |-> d[1], month |-> d[2], day |-> d[3], hour |-> h] :
      d \in InstantDays, h \in InstantHours }
TimeZoneNames == { TZ, <<"U","T","C">>, Honolulu }
Today == <<"t","o","d","a","y">>
Yesterday == <<"y","e","s","t","e","r","d","a","y">>
\* tokens that name no day of the commit: dates that exist and dates that do
\* not, near misses of the date shape, other words
FixedDateTokens ==
  { <<"2","0","2","6","-","0","2","-","0","3">>, <<"2","0","2","6","-","0","2","-","3","0">>,
    <<"2","0","2","6","-","1","3","-","4","5">>, <<"0","0","0","0","-","0","0","-","0","0">>,
    <<"2","0","2","6","-","2","-","3">>, <<"2","0","2","6","0","2","0","3">>,
    <<"2","0","2","6","/","0","2","/","0","3">>, <<"2","0","2","6","-","0","2","-","0","3","x">>,
    <<"x","2","0","2","6","-","0","2","-","0","3">>, <<"2","0","2","6","-","0","2","-","0","x">>,
    <<"T","o","d","a","y">>, <<"t","o","m","o","r","r","o","w">>,
    <<"y","e","s","t","e","r","d","a","y","s">>, <<>>, Undefined }

\* resolveDateToken on a token, for a commit instant and a time zone
CallResolveDateToken ==
  /\ log = <<>> /\ call = NoCall
  /\ \/ \E token \in {Today, Yesterday}, commitDate \in Instants, zone \in TimeZoneNames :
          call' = [fn |-> "resolveDateToken", token |-> token, commitDate |-> commitDate,
                   timeZone |-> zone,
                   returned |-> resolveDateToken(token, commitDate, zone)]
     \/ \E token \in FixedDateTokens, commitDate \in CommitDates :
          call' = [fn |-> "resolveDateToken", token |-> token, commitDate |-> commitDate,
                   timeZone |-> TZ,
                   returned |-> resolveDateToken(token, commitDate, TZ)]
  /\ UNCHANGED program

Next ==
  \/ Commit \/ StartRun \/ ProcessLine \/ WriteState \/ WriteErrors
  \/ CallNormalizeTags \/ CallParseTimeLine \/ CallParseDuration
  \/ CallNormalizeTagList \/ CallResolveDateToken

Spec == Init /\ [][Next]_vars

\* the process is killed between two steps of a run: nothing further is written
Interrupt ==
  /\ pc \in {"loop", "writeState", "writeErrors"}
  /\ pc' = "crashed"
  /\ last' = [kind |-> "interrupted"]
  /\ UNCHANGED <<world, storage, env, errors, state, commits, ci, li, timeLineIndex,
                 counters, runs, replay, errorsLoaded, llmLog, outages, rangeQueries,
                 readFailed, inner, added>>

NextInterrupt == Next \/ Interrupt

\* the program with runs that may be interrupted at any step, in an environment
\* where GEMINI_API_KEY is not set (a classifier that is asked throws)
InitInterrupt == Init /\ ~env.apiKey
SpecInterrupt == InitInterrupt /\ [][NextInterrupt]_vars

\* the program with the wait for the classifier as a state of its own,
\* GEMINI_API_KEY set
InitAwait == Init /\ env.apiKey
NextAwait ==
  Commit \/ StartRun \/ Direct \/ Request \/ Response \/ WriteState \/ WriteErrors
SpecAwait == InitAwait /\ [][NextAwait]_vars

\* the variables of the process of the script that is taking steps
LocalsNow ==
  [pc |-> pc, env |-> env, errors |-> errors, state |-> state, commits |-> commits,
   ci |-> ci, li |-> li, timeLineIndex |-> timeLineIndex, addedCount |-> addedCount,
   skippedCount |-> skippedCount, errorCount |-> errorCount, replay |-> replay,
   errorsLoaded |-> errorsLoaded, last |-> last, llmLog |-> llmLog,
   readFailed |-> readFailed, pending |-> pending, snapshot |-> snapshot]
\* a process that has not started main
FreshLocals ==
  [pc |-> "idle", env |-> [env EXCEPT !.llmEnabled = FALSE], errors |-> <<>>,
   state |-> EmptyState, commits |-> <<>>, ci |-> 0, li |-> 0, timeLineIndex |-> 0,
   addedCount |-> 0, skippedCount |-> 0, errorCount |-> 0, replay |-> FALSE,
   errorsLoaded |-> 0, last |-> NoLast, llmLog |-> <<>>, readFailed |-> FALSE,
   pending |-> <<>>, snapshot |-> NoSnapshot]
SetLocals(r) ==
  /\ pc' = r.pc /\ env' = r.env /\ errors' = r.errors /\ state' = r.state
  /\ commits' = r.commits /\ ci' = r.ci /\ li' = r.li
  /\ timeLineIndex' = r.timeLineIndex /\ addedCount' = r.addedCount
  /\ skippedCount' = r.skippedCount /\ errorCount' = r.errorCount
  /\ replay' = r.replay /\ errorsLoaded' = r.errorsLoaded /\ last' = r.last
  /\ llmLog' = r.llmLog /\ readFailed' = r.readFailed /\ pending' = r.pending
  /\ snapshot' = r.snapshot

\* a second process of the script is started while a run is under way; the
\* first one waits
Spawn ==
  /\ other = NoOther
  /\ pc \in {"loop", "write", "writeState", "writeErrors"}
  /\ runs < MaxRuns
  /\ other' = LocalsNow
  /\ SetLocals(FreshLocals)
  /\ UNCHANGED <<world, storage, runs, outages, rangeQueries, added>>

\* the operating system lets the other process take the next steps; the turn
\* changes when the process at hand has not started main, is between the read
\* and the write of a day document, or has ended
Switch ==
  /\ other # NoOther
  /\ pc \in {"idle", "write", "done", "crashed"}
  /\ other' = LocalsNow
  /\ SetLocals(other)
  /\ UNCHANGED <<world, storage, runs, outages, rangeQueries, added>>

\* the iteration at hand reads a day document to which it will add its entry:
\* its line has a date and a duration, the classifier is not asked, and the
\* document read has no entry with the id (lines 251-261)
ReadsToWrite ==
  LET commit == log[commits[ci]]
      parsed == ParsedLines[commit.body][li]
      dateString == DateStringsOfLines[config][commit.dateStr][commit.body][li]
  IN /\ parsed.kind = "parsed"
     /\ dateString # NoString
     /\ HoursOfLines[commit.body][li] # Null
     /\ ~needsClassifier(NormalizedTagsOfLines[config][commit.body][li], env.llmEnabled)
     /\ ~alreadyStored(loadJsonIfExists(dayFile(dateString),
                         [date |-> dateString, timezone |-> timeZone, entries |-> <<>>],
                         TRUE),
                       entryId(commit.sha, timeLineIndex))

\* lines 251-256: loadJsonIfExists(dailyPath, ...), the whole document
ReadDay ==
  /\ pc = "loop"
  /\ ReadsToWrite
  /\ LET commit == log[commits[ci]]
         dateString == DateStringsOfLines[config][commit.dateStr][commit.body][li]
     IN snapshot' = [taken |-> TRUE,
                     daily |-> loadJsonIfExists(dayFile(dateString),
                                 [date |-> dateString, timezone |-> timeZone,
                                  entries |-> <<>>],
                                 TRUE)]
  /\ pc' = "write"
  /\ UNCHANGED <<world, storage, env, errors, state, commits, ci, li, timeLineIndex,
                 counters, runs, replay, errorsLoaded, last, llmLog, outages, rangeQueries,
                 readFailed, pending, other, added>>

\* a write that reads the document again first
WriteDay_Reread == ProcessLineFrom("write", FALSE)

\* lines 258-287: the entry is pushed on the document read and the whole
\* document is written
WriteDay == ProcessLineFrom("write", TRUE)

\* an iteration that writes no day document
Whole == pc = "loop" /\ ~ReadsToWrite /\ ProcessLine

StartRunOff == StartRunIn({FALSE}, MaxRuns)

\* two processes of the script on one storage, their steps interleaved at the
\* reads and writes of whole documents; the classifier fallback is disabled
NextConcurrent ==
  \/ Commit \/ StartRunOff \/ Whole \/ ReadDay \/ WriteDay \/ WriteState \/ WriteErrors
  \/ Spawn \/ Switch
SpecConcurrent == InitInterrupt /\ [][NextConcurrent]_vars

\* tags.yaml is edited between two runs: its timezone is set, or removed
Reconfigure ==
  /\ pc \in {"idle", "done", "crashed"}
  /\ runs < MaxRuns
  /\ \E c \in TagConfigsOverTime :
       /\ c.tags = config.tags
       /\ c.timezone # config.timezone
       /\ config' = c
  /\ pc' = "idle"
  /\ NoProcess
  /\ UNCHANGED <<log, MAX_RECENT_COMMITS, faults, storage, env, runs, outages,
                 rangeQueries, inner, added>>

NextReconfigure ==
  Commit \/ StartRun \/ ProcessLine \/ WriteState \/ WriteErrors \/ Reconfigure

\* the program with a tags.yaml that may change between runs, GEMINI_API_KEY
\* not set
SpecReconfigure == InitInterrupt /\ [][NextReconfigure]_vars

\* a document of the storage is damaged (truncated, unreadable): from now on a
\* read of a document that exists may fail
Damage ==
  /\ pc \in {"idle", "done", "crashed"}
  /\ ~faults
  /\ faults' = TRUE
  /\ UNCHANGED <<log, config, MAX_RECENT_COMMITS, call, storage, pc, env, errors, state,
                 commits, ci, li, timeLineIndex, counters, runs, replay, errorsLoaded,
                 last, llmLog, outages, rangeQueries, readFailed, inner, added>>

NextFault == Commit \/ StartRun \/ ProcessLine \/ WriteState \/ WriteErrors \/ Damage

\* the program on a storage that may be damaged, GEMINI_API_KEY not set
SpecFault == InitInterrupt /\ [][NextFault]_vars

\* the program with the classifier fallback disabled in every run, and one more
\* run than MaxRuns: a bootstrap, a degraded and an incremental run can follow
\* one another
CommitFurther == CommitWithin(MaxRuns + 1)
StartRunDisabled == StartRunIn({FALSE}, MaxRuns + 1)
NextSelection == CommitFurther \/ StartRunDisabled \/ ProcessLine \/ WriteState \/ WriteErrors
SpecSelection == InitInterrupt /\ [][NextSelection]_vars

(***************************************************************************)
(* Vocabulary of the properties                                            *)
(***************************************************************************)
\* the places <<date, position>> of the stored entries, and the entry at a place
Places == {p \in UNION {{<<d, i>> : i \in 1..Len(days[d].entries)} : d \in DOMAIN days} : TRUE}
EntryAt(p) == days[p[1]].entries[p[2]]
PlacesOfId(id) == {p \in Places : EntryAt(p).id = id}
PlacesOfCommit(sha) == {p \in Places : EntryAt(p).source.commit = sha}

\* the lines of commit message b that begin with the time: marker, and the
\* number of such lines before line l
TimeLines ==
  [b \in 1..Len(Bodies) |-> {l \in 1..Len(Bodies[b]) : ParsedLines[b][l].kind # "null"}]
TimeLinesOf(b) == TimeLines[b]
TimeLineNumbers ==
  [b \in 1..Len(Bodies) |->
     [l \in 1..Len(Bodies[b]) |-> Cardinality({k \in TimeLines[b] : k < l})]]
TimeLinesBefore(b, l) == TimeLineNumbers[b][l]

\* line l of commit sha is a time: line whose date and duration resolve
Resolves(sha, l) ==
  LET b == log[sha].body
  IN /\ ParsedLines[b][l].kind = "parsed"
     /\ DateStringsOfLines[config][log[sha].dateStr][b][l] # NoString
     /\ HoursOfLines[b][l] # Null
\* line l of commit sha is a time: line whose date or duration does not resolve
Malformed(sha, l) ==
  LET b == log[sha].body
  IN /\ ParsedLines[b][l].kind \in {"parsed", "error"}
     /\ ~Resolves(sha, l)

\* the records the run has appended to the error log
Appended == SubSeq(errors, errorsLoaded + 1, Len(errors))

(***************************************************************************)
(* C1. Idempotence of a run: a run executed right after a completed run,   *)
(* with the commit history and the storage as that run left them, reports  *)
(* added = 0 and no step of it changes any day store.                      *)
(***************************************************************************)
C1_Idempotence ==
  /\ [](replay /\ pc = "done" => addedCount = 0)
  /\ [][replay' => days' = days]_vars

C1_Witness == replay /\ pc = "done" /\ skippedCount >= 2 /\ Len(commits) >= 2

(***************************************************************************)
(* C2. Exactly-once ingestion: whenever a run has completed, every time:   *)
(* line whose date and duration resolve, of every commit of the history,   *)
(* has exactly one entry with the id sha:<commit>:<index> in the day       *)
(* stores, whichever range (bootstrap, incremental, degraded) the runs     *)
(* selected.                                                               *)
(***************************************************************************)
C2_ExactlyOnce ==
  pc = "done" =>
    \A sha \in 1..Len(log) : \A l \in 1..Len(linesOf(sha)) :
      Resolves(sha, l) =>
        Cardinality(PlacesOfId(<<"sha", sha, TimeLinesBefore(log[sha].body, l)>>)) = 1

\* an incremental run has completed: it stored the lines of a new commit and
\* skipped those of a commit in the recent window
C2_Witness ==
  /\ pc = "done" /\ runs = 2
  /\ state.last_processed # NoSha
  /\ addedCount > 0 /\ skippedCount > 0

(***************************************************************************)
(* C3. In every reachable state no two entries of one day store have the   *)
(* same id.                                                                *)
(***************************************************************************)
C3_UniqueIds ==
  \A d \in DOMAIN days : \A i, j \in 1..Len(days[d].entries) :
    days[d].entries[i].id = days[d].entries[j].id => i = j

\* a later run has met, and skipped, a line of a day store that holds two entries
C3_Witness ==
  /\ runs = 2 /\ last.kind = "skipped"
  /\ Len(days[last.date].entries) >= 2

(***************************************************************************)
(* C4. Day stores are append-only: every step that writes a day store      *)
(* writes one store, keeps the entries it held, unmodified and in order,   *)
(* and adds exactly one entry at the end; no store is removed.             *)
(***************************************************************************)
AppendsOne(d) ==
  LET old == IF d \in DOMAIN days THEN days[d].entries ELSE <<>>
      new == days'[d].entries
  IN /\ DOMAIN days' = DOMAIN days \cup {d}
     /\ \A x \in DOMAIN days \ {d} : days'[x] = days[x]
     /\ Len(new) = Len(old) + 1
     /\ SubSeq(new, 1, Len(old)) = old

C4_AppendOnly == [][days' # days => \E d \in DOMAIN days' : AppendsOne(d)]_vars

\* a run has appended to a day store that an earlier run wrote
C4_Witness ==
  /\ runs = 2 /\ last.kind = "added"
  /\ \E i \in 1..Len(days[last.date].entries) :
       days[last.date].entries[i].source.commit # last.id[2]

(***************************************************************************)
(* C5. Identity stability: the id of a stored entry or of an error record  *)
(* is sha:<commit>:<N> where N is the number of time: lines before its     *)
(* line in the commit message, whatever the run selected, whatever was     *)
(* stored and whatever the classifier answered.                            *)
(***************************************************************************)
\* line l of commit sha is the line the id names
IsLineOfId(id, sha, l) ==
  /\ l \in TimeLinesOf(log[sha].body)
  /\ id = <<"sha", sha, TimeLinesBefore(log[sha].body, l)>>

C5_IdentityStability ==
  /\ \A p \in Places :
       LET e == EntryAt(p)
       IN \E l \in 1..Len(linesOf(e.source.commit)) :
            /\ IsLineOfId(e.id, e.source.commit, l)
            /\ e.raw.tags = ParsedLines[log[e.source.commit].body][l].rawTags
            /\ e.raw.date_token = ParsedLines[log[e.source.commit].body][l].dateToken
            /\ e.raw.duration_token = ParsedLines[log[e.source.commit].body][l].durationToken
  /\ \A i \in 1..Len(errors) :
       \E l \in 1..Len(linesOf(errors[i].commit)) :
         /\ IsLineOfId(errors[i].id, errors[i].commit, l)
         /\ errors[i].line = linesOf(errors[i].commit)[l]

\* a second run, with another selection, has met a line that is not the first
\* time: line of its commit and found its id stored
C5_Witness ==
  /\ runs = 2 /\ last.kind = "skipped" /\ last.id[3] > 0
  /\ Len(commits) = 1 /\ Len(log) = 2

(***************************************************************************)
(* C6. Error isolation. As the specification states it: a commit message   *)
(* with one malformed time: line and one well-formed time: line yields     *)
(* exactly one ErrorLog entry and exactly one stored entry from that       *)
(* commit, whichever line comes first. As the program keeps it: when a run *)
(* that processed such a commit has completed, the commit has exactly one  *)
(* stored entry and the run has recorded exactly one "invalid date or      *)
(* duration" ErrorLog entry for it, that of the malformed line; a failure  *)
(* of the classifier on the well-formed line adds an llm_error entry.      *)
(***************************************************************************)
\* the commits of the run whose message has one malformed and one well-formed
\* time: line (and no other time: line)
OneBadOneGood ==
  {sha \in {commits[i] : i \in 1..Len(commits)} :
     /\ Cardinality(TimeLinesOf(log[sha].body)) = 2
     /\ Cardinality({l \in TimeLinesOf(log[sha].body) : Malformed(sha, l)}) = 1
     /\ Cardinality({l \in TimeLinesOf(log[sha].body) : Resolves(sha, l)}) = 1}

AppendedOf(sha) == {i \in 1..Len(Appended) : Appended[i].commit = sha}

C6_AsStated ==
  pc = "done" =>
    \A sha \in OneBadOneGood :
      /\ Cardinality(AppendedOf(sha)) = 1
      /\ Cardinality(PlacesOfCommit(sha)) = 1

C6_ErrorIsolation ==
  pc = "done" =>
    \A sha \in OneBadOneGood :
      /\ Cardinality(PlacesOfCommit(sha)) = 1
      /\ \A p \in PlacesOfCommit(sha) :
           \E l \in TimeLinesOf(log[sha].body) :
             Resolves(sha, l) /\ IsLineOfId(EntryAt(p).id, sha, l)
      /\ Cardinality({i \in AppendedOf(sha) :
                        Appended[i].reason = "invalid date or duration"}) = 1
      /\ \A i \in AppendedOf(sha) :
           \E l \in TimeLinesOf(log[sha].body) :
             /\ IsLineOfId(Appended[i].id, sha, l)
             /\ Appended[i].reason = "invalid date or duration" <=> Malformed(sha, l)
             /\ Appended[i].reason \in {"invalid date or duration", "llm_error"}

\* a completed run has processed a commit whose malformed line comes first and
\* a commit whose malformed line comes last
C6_Witness ==
  /\ pc = "done"
  /\ \E s1, s2 \in OneBadOneGood :
       /\ \E l \in TimeLinesOf(log[s1].body) :
            Malformed(s1, l) /\ TimeLinesBefore(log[s1].body, l) = 0
       /\ \E l \in TimeLinesOf(log[s2].body) :
            Malformed(s2, l) /\ TimeLinesBefore(log[s2].body, l) = 1

(***************************************************************************)
(* C7. Every run completes and emits the summary, for any commit message   *)
(* content and any tag names: no run is aborted by the content of a line.  *)
(***************************************************************************)
C7_RunCompletes == pc # "crashed"

(***************************************************************************)
(* C8. When the classifier call fails for a line with valid date and       *)
(* duration, the run records exactly one ErrorLog entry for that line,     *)
(* carrying the failure detail, and the line is stored, or skipped if      *)
(* already stored, with primary = uncategorized and method = fallback.     *)
(***************************************************************************)
C8_ClassifierFailure ==
  (last.kind \in {"added", "skipped"} /\ last.llm = "threw") =>
    /\ last.message # ""
    /\ Appended # <<>>
    /\ Appended[Len(Appended)].id = last.id
    /\ Appended[Len(Appended)].reason = "llm_error"
    /\ Appended[Len(Appended)].message = last.message
    /\ Cardinality({i \in 1..Len(Appended) : Appended[i].id = last.id}) = 1
    /\ last.normalized.primary = Uncategorized
    /\ last.normalized.method = "fallback"
    /\ Cardinality(PlacesOfId(last.id)) = 1
    /\ last.kind = "added" =>
         \A p \in PlacesOfId(last.id) :
           /\ p[1] = last.date
           /\ EntryAt(p).normalized = last.normalized

\* the collaborator answered with something that is not JSON, and the line was
\* stored
C8_Witness ==
  /\ last.kind = "added" /\ last.llm = "threw"
  /\ last.message = "Unexpected token"

(***************************************************************************)
(* C9. With the classifier fallback disabled the run makes no external     *)
(* classifier call, and a line whose raw tags match no canonical key or    *)
(* alias is stored with primary = uncategorized, confidence = 0.0, method  *)
(* = fallback and an empty secondary list.                                 *)
(***************************************************************************)
C9_FallbackDisabled ==
  (pc # "idle" /\ ~env.llmEnabled) =>
    /\ llmLog = <<>>
    /\ last.kind = "added" =>
         \A p \in PlacesOfId(last.id) :
           normalizeTags(EntryAt(p).raw.tags, tagIndex) = <<>> =>
             EntryAt(p).normalized =
               [primary |-> Uncategorized, secondary |-> <<>>,
                confidence |-> Num(0, 1), method |-> "fallback"]

\* such a line has been stored
C9_Witness ==
  /\ ~env.llmEnabled /\ last.kind = "added"
  /\ \E p \in PlacesOfId(last.id) :
       /\ EntryAt(p).raw.tags = << <<"z","z">> >>
       /\ EntryAt(p).normalized.method = "fallback"

(***************************************************************************)
(* C10. Cache short-circuit. As the specification states it: two lines of  *)
(* one run with the same raw tags and the same note, both unresolved by    *)
(* alias lookup and not in the cache when the first is met, trigger        *)
(* exactly one external classification call (the API key being set). As    *)
(* the program keeps it: when the call for the first returns a result that *)
(* passes sanitization, the second is answered from the cache and no       *)
(* further call is made for it; a failed or rejected call stores nothing   *)
(* in the cache.                                                           *)
(***************************************************************************)
\* the requests of the run for the key of request i, up to request j
SameKey(i, j) == {k \in i..j : llmLog[k].key = llmLog[i].key}
Calls(i, j) == {k \in SameKey(i, j) : llmLog[k].called}
\* request i is the first of the run for its key, and the cache did not hold it
FirstAndCold(i) ==
  /\ llmLog[i].kind # "hit"
  /\ \A k \in 1..(i - 1) : llmLog[k].key # llmLog[i].key

C10_AsStated ==
  env.apiKey =>
    \A i, j \in 1..Len(llmLog) :
      (i < j /\ llmLog[j].key = llmLog[i].key /\ FirstAndCold(i)) =>
        Cardinality(Calls(i, j)) = 1

C10_CacheShortCircuit ==
  /\ \A i, j \in 1..Len(llmLog) :
       (i < j /\ llmLog[j].key = llmLog[i].key /\ FirstAndCold(i)
          /\ llmLog[i].kind = "ok") =>
         /\ llmLog[j].kind = "hit"
         /\ Calls(i, j) = {i}
  /\ \A i \in 1..Len(llmLog) :
       /\ llmLog[i].kind = "hit" => ~llmLog[i].called
       /\ (i = Len(llmLog) /\ llmLog[i].kind \in {"threw", "null"}
             /\ llmLog[i].message # "object is not iterable") =>
            ~(cacheFile.exists /\ hasOwn(cacheFile.data, llmLog[i].key))

\* the first of two such lines was classified, the second answered from the cache
C10_Witness ==
  /\ Len(llmLog) >= 2
  /\ llmLog[1].kind = "ok" /\ llmLog[1].called
  /\ llmLog[2].kind = "hit" /\ llmLog[2].key = llmLog[1].key

(***************************************************************************)
(* C11. Alias precedence: when the normalized form of a canonical key (the *)
(* only key with that normalized form) equals the normalized form of an    *)
(* alias declared under a different key, the lookup of that form returns   *)
(* the canonical key itself, whatever the order of the keys in tags.yaml.  *)
(***************************************************************************)
\* key i of the document shares its normalized form with an alias of another
\* key, and with no other key
ClashesWithAlias(tags, i) ==
  /\ normalizeToken(tags[i].key) # <<>>
  /\ \E j \in 1..Len(tags) : \E a \in 1..Len(tags[j].aliases) :
       j # i /\ normalizeToken(tags[j].aliases[a]) = normalizeToken(tags[i].key)
  /\ \A j \in 1..Len(tags) : j # i => normalizeToken(tags[j].key) # normalizeToken(tags[i].key)

IsTagToken(t) == t # <<>> /\ Head(t) = "#"
\* the tag open when token i is met: the name of the last # token before it, the
\* empty name when that token is a bare # or when there is none
OpenAt(tokens, i) ==
  LET before == {j \in 1..(i - 1) : IsTagToken(tokens[j])}
  IN IF before = {} THEN <<>>
     ELSE Tail(tokens[CHOOSE j \in before : \A k \in before : k <= j])
\* the tokens from position i on that are not # tokens and are met while tag is open
RECURSIVE WordsUnder(_, _, _)
WordsUnder(tokens, i, tag) ==
  IF i > Len(tokens) THEN <<>>
  ELSE IF ~IsTagToken(tokens[i]) /\ OpenAt(tokens, i) = tag
  THEN <<tokens[i]>> \o WordsUnder(tokens, i + 1, tag)
  ELSE WordsUnder(tokens, i + 1, tag)
RECURSIVE TagsFrom(_, _)
TagsFrom(tokens, i) ==
  IF i > Len(tokens) THEN <<>>
  ELSE IF IsTagToken(tokens[i]) /\ Tail(tokens[i]) # <<>>
  THEN <<Tail(tokens[i])>> \o TagsFrom(tokens, i + 1)
  ELSE TagsFrom(tokens, i + 1)
TagsWithWords(tokens) ==
  {OpenAt(tokens, i) : i \in {j \in 1..Len(tokens) : ~IsTagToken(tokens[j])}} \ {<<>>}

C12_TagMetadata ==
  call.fn = "parseTimeLine" =>
    /\ call.returned.kind = "parsed"
    /\ call.returned.rawTags = TagsFrom(call.rest, 1)
    /\ DOMAIN call.returned.tagMeta = TagsWithWords(call.rest)
    /\ \A tag \in TagsWithWords(call.rest) :
         call.returned.tagMeta[tag] = WordsUnder(call.rest, 1, tag)
    /\ call.returned.note = join(WordsUnder(call.rest, 1, <<>>), <<" ">>)

(***************************************************************************)
(* C13. Duration parsing: a token <number><unit> with an hour-family unit  *)
(* yields the number as hours, with a minute-family unit the number        *)
(* divided by 60 (90m gives 1.5, 2h gives 2, 3hours gives 3), whatever the *)
(* case of the unit; any other token yields the invalid signal. A time:    *)
(* line with such a token never has an entry in a day store, the run that  *)
(* meets it records it in the error log, and a run that completes has      *)
(* written that record to the persisted error log.                         *)
(***************************************************************************)
\* the numbers written N or N.N among DurationNumbers, as fractions
WrittenNumbers ==
  [x \in { <<"2">>, <<"9","0">>, <<"3">>, <<"1",".","5">>, <<"0">>, <<"0","0","7">>,
           <<"0",".","2","5">> } |->
     CASE x = <<"2">> -> [n |-> 2, d |-> 1]
       [] x = <<"9","0">> -> [n |-> 90, d |-> 1]
       [] x = <<"3">> -> [n |-> 3, d |-> 1]
       [] x = <<"1",".","5">> -> [n |-> 3, d |-> 2]
       [] x = <<"0">> -> [n |-> 0, d |-> 1]
       [] x = <<"0","0","7">> -> [n |-> 7, d |-> 1]
       [] x = <<"0",".","2","5">> -> [n |-> 1, d |-> 4]]
HourFamily ==
  { <<"h">>, <<"h","r">>, <<"h","o","u","r">>, <<"h","o","u","r","s">>, <<"H">>,
    <<"H","o","u","r","s">>, <<"h","O","u","R">> }
MinuteFamily ==
  { <<"m">>, <<"m","i","n">>, <<"m","i","n","s">>, <<"m","i","n","u","t","e">>,
    <<"m","i","n","u","t","e","s">>, <<"M","I","N">>, <<"M","i","n","u","t","e","s">> }
\* a / b = c, for fractions
SameFraction(x, n, d) == x # Null /\ x.n * d = n * x.d

\* the time: lines of commit sha whose duration token is invalid
InvalidDurationLines(sha) ==
  {l \in TimeLinesOf(log[sha].body) :
     /\ ParsedLines[log[sha].body][l].kind \in {"parsed", "error"}
     /\ HoursOfLines[log[sha].body][l] = Null}

C13_DurationParsing ==
  /\ call.fn = "parseDuration" =>
       IF call.number \in DOMAIN WrittenNumbers /\ call.unit \in HourFamily
       THEN SameFraction(call.returned, WrittenNumbers[call.number].n,
                         WrittenNumbers[call.number].d)
       ELSE IF call.number \in DOMAIN WrittenNumbers /\ call.unit \in MinuteFamily
       THEN SameFraction(call.returned, WrittenNumbers[call.number].n,
                         WrittenNumbers[call.number].d * 60)
       ELSE call.returned = Null
  /\ \A sha \in 1..Len(log) : \A l \in InvalidDurationLines(sha) :
       /\ PlacesOfId(<<"sha", sha, TimeLinesBefore(log[sha].body, l)>>) = {}
       /\ (pc = "done" /\ InSeq(commits, sha)) =>
            \E i \in 1..Len(errorsFile.data) :
              /\ errorsFile.data[i].id = <<"sha", sha, TimeLinesBefore(log[sha].body, l)>>
              /\ errorsFile.data[i].line = linesOf(sha)[l]
  /\ last.kind = "error" =>
       /\ Appended # <<>>
       /\ Appended[Len(Appended)].id = last.id
       /\ Appended[Len(Appended)].reason = "invalid date or duration"

\* 90MIN has been parsed: an hour and a half
C13_Witness ==
  /\ call.fn = "parseDuration"
  /\ call.number = <<"9","0">> /\ call.unit = <<"M","I","N">>
  /\ call.returned = [n |-> 3, d |-> 2]

(***************************************************************************)
(* C14. Every entry of a day store has a primary that is a canonical key   *)
(* of the tag index or the sentinel uncategorized, a secondary list made   *)
(* only of canonical keys, none equal to primary and none repeated, a      *)
(* confidence between 0 and 1, and a method among alias, llm and fallback. *)
(***************************************************************************)
C14_NormalizedShape ==
  \A p \in Places :
    LET n == EntryAt(p).normalized
    IN /\ InSeq(tagIndex.canonical, n.primary) \/ n.primary = Uncategorized
       /\ \A i \in 1..Len(n.secondary) :
            /\ InSeq(tagIndex.canonical, n.secondary[i])
            /\ n.secondary[i] # n.primary
            /\ \A j \in 1..Len(n.secondary) : n.secondary[j] = n.secondary[i] => j = i
       /\ n.confidence.n >= 0 /\ n.confidence.n <= n.confidence.d
       /\ n.method \in {"alias", "llm", "fallback"}

(***************************************************************************)
(* C15. The classifier is asked for a line (and so an external request can *)
(* be issued for it) only if alias normalization of its raw tags produced  *)
(* no category, the fallback is enabled, and the line's date and duration  *)
(* both resolved; every stored entry whose line has an alias match has     *)
(* method = alias and the first match as primary.                          *)
(***************************************************************************)
\* the alias matches of the line an entry was made from
AliasMatchesOf(e) ==
  LET b == log[e.source.commit].body
  IN NormalizedTagsOfLines[config][b][CHOOSE l \in TimeLinesOf(b) :
                                        IsLineOfId(e.id, e.source.commit, l)]

C15_CallOnlyOnAliasMiss ==
  /\ [][(llmLog' # llmLog /\ llmLog' # <<>>) =>
          /\ pc = "loop"
          /\ env.llmEnabled
          /\ NormalizedTagsOfLines[config][log[commits[ci]].body][li] = <<>>
          /\ Resolves(commits[ci], li)
          /\ llmLog' = Append(llmLog, llmLog'[Len(llmLog')])]_vars
  /\ [](\A p \in Places :
          AliasMatchesOf(EntryAt(p)) # <<>> =>
            /\ EntryAt(p).normalized.method = "alias"
            /\ EntryAt(p).normalized.primary = AliasMatchesOf(EntryAt(p))[1])

\* in a run with the fallback enabled, a line with an alias match has been
\* stored after the classifier was called for another line
C15_Witness ==
  /\ env.llmEnabled /\ last.kind = "added"
  /\ last.llm = "none" /\ last.normalized.method = "alias"
  /\ \E i \in 1..Len(llmLog) : llmLog[i].called

(***************************************************************************)
(* C16. On a cache hit for the exact (raw tags, note) pair the classifier  *)
(* fallback returns the cached result, issues no external request and      *)
(* leaves the cache and the suggestion ledger unchanged; the cache being   *)
(* persisted, this holds in a later run as in the run that filled it.      *)
(***************************************************************************)
\* the cache holds the key of the line being processed
CacheHolds(key) == cacheFile.exists /\ hasOwn(cacheFile.data, key)
KeyOfLine == cacheKeyOf(ParsedLines[log[commits[ci]].body][li].rawTags,
                        ParsedLines[log[commits[ci]].body][li].note)

C16_CacheHit ==
  [][(llmLog' # llmLog /\ llmLog' # <<>> /\ CacheHolds(KeyOfLine)) =>
       /\ llmLog'[Len(llmLog')].kind = "hit"
       /\ llmLog'[Len(llmLog')].key = KeyOfLine
       /\ ~llmLog'[Len(llmLog')].called
       /\ cacheFile' = cacheFile
       /\ suggFile' = suggFile
       /\ last'.normalized =
            [primary |-> cacheFile.data[KeyOfLine].primary,
             secondary |-> cacheFile.data[KeyOfLine].secondary,
             confidence |-> cacheFile.data[KeyOfLine].confidence,
             method |-> "llm"]]_vars

\* the first classifier request of a later run was answered from the cache, and
\* the line was stored with the cached result
C16_Witness ==
  /\ runs = 2 /\ Len(llmLog) = 1
  /\ llmLog[1].kind = "hit" /\ ~llmLog[1].called
  /\ last.kind = "added" /\ last.normalized.method = "llm"

(***************************************************************************)
(* C17. A sanitization rejection (well-formed JSON whose primary is not a  *)
(* canonical key) is handled as a classifier error: one ErrorLog entry     *)
(* with detail is recorded for the line, the line degrades to primary =    *)
(* uncategorized and method = fallback, and nothing is written to the      *)
(* cache or the ledger.                                                    *)
(***************************************************************************)
C17_RejectionRecorded ==
  (last.kind \in {"added", "skipped"} /\ last.llm = "null") =>
    /\ last.normalized.primary = Uncategorized
    /\ last.normalized.method = "fallback"
    /\ ~CacheHolds(llmLog[Len(llmLog)].key)
    /\ Cardinality({i \in 1..Len(Appended) : Appended[i].id = last.id}) = 1
    /\ Appended[Len(Appended)].id = last.id
    /\ Appended[Len(Appended)].reason = "llm_error"

(***************************************************************************)
(* C18. At the end of every completed run, a run that added, skipped and   *)
(* errored nothing included, the persisted watermark last_processed is the *)
(* most recent commit of the repository and recent_commits holds the       *)
(* identifiers of the most recent N commits, newest first (all of them     *)
(* when the history has fewer than N, none when N = 0).                    *)
(***************************************************************************)
C18_WatermarkRefreshed ==
  pc = "done" =>
    /\ stateFile.exists
    /\ stateFile.data.last_processed = Len(log)
    /\ Len(stateFile.data.recent_commits)
         = (IF MAX_RECENT_COMMITS < Len(log) THEN MAX_RECENT_COMMITS ELSE Len(log))
    /\ \A i \in 1..Len(stateFile.data.recent_commits) :
         stateFile.data.recent_commits[i] = Len(log) + 1 - i

\* a run that processed no commit has completed, with a window shorter than the
\* history
C18_Witness ==
  /\ pc = "done" /\ runs = 2
  /\ addedCount = 0 /\ skippedCount = 0 /\ errorCount = 0
  /\ commits = <<>>
  /\ Len(log) = 2

C20_RecentWindowMerged ==
  (pc \in {"loop", "writeState", "writeErrors", "done", "crashed"}) =>
    /\ \A i, j \in 1..Len(commits) : commits[i] = commits[j] => i = j
    /\ \A i, j \in 1..Len(commits) : i < j => commits[i] > commits[j]
    /\ \A i \in 1..MAX_RECENT_COMMITS :
         i <= Len(log) => InSeq(commits, Len(log) + 1 - i)
    /\ \A sha \in (state.last_processed + 1)..Len(log) : InSeq(commits, sha)

\* the range after the watermark and the window both hold the newest commit,
\* which the run has processed once
C20_Witness ==
  /\ pc = "done" /\ MAX_RECENT_COMMITS = 1
  /\ state.last_processed = 1 /\ Len(log) = 2
  /\ commits = <<2>>
  /\ addedCount + skippedCount + errorCount > 0

(***************************************************************************)
(* C21. Commit selection. A run that finds no watermark processes the full *)
(* history; a run that finds the watermark W and whose range query         *)
(* succeeds processes exactly the commits after W and the most recent N;   *)
(* a run whose range query fails processes the full history, and the       *)
(* watermark it writes is the head of the history, from which the next run *)
(* is selected like any other: it is incremental when its query succeeds.  *)
(* (Specification SpecSelection: the classifier fallback disabled.)        *)
(***************************************************************************)
InRun == pc \in {"loop", "writeState", "writeErrors", "done", "crashed"}
Selected == {commits[i] : i \in 1..Len(commits)}
AfterWatermark == {sha \in 1..Len(log) : sha > state.last_processed}
RecentWindow == {sha \in 1..Len(log) : sha > Len(log) - MAX_RECENT_COMMITS}
\* the query of the run in progress, and of the run before it
ThisQuery == rangeQueries[Len(rangeQueries)]
QueryBefore == rangeQueries[Len(rangeQueries) - 1]

C21_CommitSelection ==
  /\ [](InRun =>
          /\ ThisQuery = "none" <=> state.last_processed = NoSha
          /\ ThisQuery \in {"none", "failed"} => Selected = 1..Len(log)
          /\ ThisQuery = "ok" => Selected = AfterWatermark \cup RecentWindow
          /\ (pc = "done" /\ ThisQuery = "failed") =>
               stateFile.data.last_processed = Len(log))
  /\ [][runs' = runs + 1 =>
          /\ state' = (IF stateFile.exists THEN stateFile.data ELSE EmptyState)
          /\ (rangeQueries # <<>> /\ ThisQuery = "failed" /\ stateFile.exists) =>
               ThisQuery' \in {"ok", "failed"}]_vars

\* a bootstrap run, a degraded run that processed the history again, a commit,
\* then a run that processed the new commit only
C21_Witness ==
  /\ rangeQueries = <<"none", "failed", "ok">>
  /\ pc = "done" /\ commits = <<2>>
  /\ state.last_processed = 1 /\ MAX_RECENT_COMMITS = 0
  /\ addedCount > 0 /\ skippedCount = 0

(***************************************************************************)
(* C22. A storage error is fatal to the run: when a day store, the error   *)
(* log or the watermark exists and cannot be read or decoded, the run      *)
(* fails, and no step removes an entry from a day store or a record from   *)
(* the persisted error log. (Specification SpecFault: reads may fail.)     *)
(***************************************************************************)
IsPrefix(a, b) == Len(a) <= Len(b) /\ SubSeq(b, 1, Len(a)) = a
KeepsEntries ==
  \A d \in DOMAIN days :
    d \in DOMAIN days' /\ IsPrefix(days[d].entries, days'[d].entries)
KeepsErrorRecords ==
  errorsFile.exists => (errorsFile'.exists /\ IsPrefix(errorsFile.data, errorsFile'.data))

C22_StorageErrorFatal ==
  [][/\ readFailed' => pc' = "crashed"
     /\ KeepsEntries
     /\ KeepsErrorRecords]_vars

(***************************************************************************)
(* C23. The index in an id is the number of earlier lines of the same      *)
(* commit message that begin with the time: marker, whatever became of     *)
(* them: a line with fewer than two tokens after the marker, or whose date *)
(* or duration does not resolve, is recorded in the error log under the    *)
(* index of its place, and the lines after it are numbered as if it had    *)
(* been well-formed.                                                       *)
(***************************************************************************)
\* by the text of the lines alone: which lines of a message begin with the
\* marker, how many tokens follow it, how many marker lines come before a line
MarkerLines ==
  [b \in 1..Len(Bodies) |->
     {l \in 1..Len(Bodies[b]) :
        LET t == trim(Bodies[b][l])
        IN Len(t) >= 5 /\ toLowerCase(SubSeq(t, 1, 5)) = <<"t","i","m","e",":">>}]
TokensAfterMarker ==
  [b \in 1..Len(Bodies) |->
     [l \in MarkerLines[b] |->
        Len(splitWs(SubSeq(trim(Bodies[b][l]), 6, Len(trim(Bodies[b][l])))))]]
MarkerLinesBefore ==
  [b \in 1..Len(Bodies) |->
     [l \in 1..Len(Bodies[b]) |-> Cardinality({k \in MarkerLines[b] : k < l})]]
\* the line the loop is at: its commit, its message, its id by the rule
HereSha == commits[ci]
HereBody == log[commits[ci]].body
HereId == <<"sha", HereSha, MarkerLinesBefore[HereBody][li]>>

C23_IndexCountsMarkerLines ==
  [][(pc = "loop" /\ pc' # "crashed" /\ li \in MarkerLines[HereBody]) =>
       /\ last'.kind \in {"added", "skipped", "error"}
       /\ last'.id = HereId
       /\ (TokensAfterMarker[HereBody][li] < 2 \/ Malformed(HereSha, li)) =>
            /\ last'.kind = "error"
            /\ Len(errors') = Len(errors) + 1
            /\ errors'[Len(errors')].id = HereId
            /\ errors'[Len(errors')].line = linesOf(HereSha)[li]
       /\ last'.kind = "added" =>
            /\ Len(days'[last'.date].entries) >= 1
            /\ days'[last'.date].entries[Len(days'[last'.date].entries)].id = HereId]_vars

\* a line that follows a line with nothing after the marker has been stored
\* under the index 1, and that line is in the error log under the index 0
C23_Witness ==
  /\ last.kind = "added" /\ last.id[3] = 1
  /\ \E i \in 1..Len(Appended) :
       /\ Appended[i].id = <<"sha", last.id[2], 0>>
       /\ Appended[i].line = LineShort

(***************************************************************************)
(* C24. Canonical keys in the alias map. As the specification states it:   *)
(* for every canonical key k of any tag configuration, alias normalization *)
(* of the raw tag list [k] returns [k]. As the program keeps it: a key      *)
(* whose normalized form is empty matches nothing, and [k] returns the key *)
(* declared last among the keys with k's normalized form, which is k when  *)
(* no key declared after k has that form.                                  *)
(***************************************************************************)
\* the positions of the keys of the document that the raw tag list [k] names
KeysLookedUp == {i \in 1..Len(call.config.tags) : call.rawTags = <<call.config.tags[i].key>>}
\* the last key of the document with the normalized form of key i
LastWithFormOf(tags, i) ==
  tags[CHOOSE j \in 1..Len(tags) :
         /\ normalizeToken(tags[j].key) = normalizeToken(tags[i].key)
         /\ \A k \in 1..Len(tags) :
              normalizeToken(tags[k].key) = normalizeToken(tags[i].key) => k <= j].key

Matches(t) == normalizeToken(t) # <<>> /\ normalizeToken(t) \in DOMAIN tagIndex.aliasMap
KeyOf(t) == tagIndex.aliasMap[normalizeToken(t)]
\* the positions of a list where a key is matched for the first time
FirstMatches(raw) ==
  {i \in 1..Len(raw) :
     /\ Matches(raw[i])
     /\ \A j \in 1..(i - 1) : Matches(raw[j]) => KeyOf(raw[j]) # KeyOf(raw[i])}
\* position i is the k-th of them
IsKth(raw, i, k) == Cardinality({j \in FirstMatches(raw) : j <= i}) = k

C25_AliasNormalization ==
  /\ call.fn = "normalizeTagList" =>
       /\ Len(call.returned) = Cardinality(FirstMatches(call.rawTags))
       /\ \A i \in FirstMatches(call.rawTags) : \A k \in 1..Len(call.returned) :
            IsKth(call.rawTags, i, k) => call.returned[k] = KeyOf(call.rawTags[i])
       /\ \A k \in 1..Len(call.returned) :
            /\ InSeq(tagIndex.canonical, call.returned[k])
            /\ \A m \in 1..Len(call.returned) : call.returned[m] = call.returned[k] => m = k
  /\ \A p \in Places :
       AliasMatchesOf(EntryAt(p)) # <<>> =>
         EntryAt(p).normalized =
           [primary |-> AliasMatchesOf(EntryAt(p))[1],
            secondary |-> Tail(AliasMatchesOf(EntryAt(p))),
            confidence |-> Num(1, 1), method |-> "alias"]
  /\ \A p \in Places :
       EntryAt(p).normalized.method = "alias" => AliasMatchesOf(EntryAt(p)) # <<>>

\* an unknown tag, an alias, another key, then the two keys again: two keys
\* are returned, in the order of the alias and the other key
C25_Witness ==
  /\ call.fn = "normalizeTagList"
  /\ call.rawTags = ExampleTags
  /\ call.returned = <<Work, Study>>

(***************************************************************************)
(* C26. Date resolution: 'today' is the calendar date of the commit        *)
(* instant in the configured time zone; 'yesterday' is the calendar day    *)
(* before it, across the ends of months and years; a token of the shape    *)
(* YYYY-MM-DD is returned as it is, whether or not such a day exists; any  *)
(* other token is invalid.                                                 *)
(***************************************************************************)
\* the number of a calendar day, counted from the civil calendar's rules
DaysBeforeMonth == <<0, 31, 59, 90, 120, 151, 181, 212, 243, 273, 304, 334>>
LeapDay(y) == (y % 4 = 0 /\ y % 100 # 0) \/ y % 400 = 0
DayNumber(y, m, d) ==
  365 * y + (y \div 4) - (y \div 100) + (y \div 400) + DaysBeforeMonth[m] + d
    - (IF LeapDay(y) /\ m <= 2 THEN 1 ELSE 0)
MonthLength(y, m) ==
  IF m = 12 THEN 31
  ELSE DaysBeforeMonth[m + 1] - DaysBeforeMonth[m] + (IF LeapDay(y) /\ m = 2 THEN 1 ELSE 0)
\* the text YYYY-MM-DD of a day
TwoDigits(n) == <<DigitChars[(n \div 10) + 1], DigitChars[(n % 10) + 1]>>
DayText(y, m, d) ==
  TwoDigits(y \div 100) \o TwoDigits(y % 100) \o <<"-">> \o TwoDigits(m) \o <<"-">> \o TwoDigits(d)
\* the texts of the days that exist and carry the number n, near year y
DaysNumbered(n, y) ==
  { DayText(yy, m, d) : yy \in (y - 1)..(y + 1), m \in 1..12, d \in 1..31 } \cap
  { DayText(c[1], c[2], c[3]) :
      c \in { x \in ((y - 1)..(y + 1)) \X (1..12) \X (1..31) :
                x[3] <= MonthLength(x[1], x[2]) /\ DayNumber(x[1], x[2], x[3]) = n } }
\* the number of the local day of an instant
LocalDayNumber(commitDate, zone) ==
  (24 * DayNumber(commitDate.year, commitDate.month, commitDate.day)
     + commitDate.hour + tzOffsetHours(zone)) \div 24
DateShaped(t) ==
  /\ t # Undefined /\ Len(t) = 10
  /\ t[5] = "-" /\ t[8] = "-"
  /\ \A i \in {1, 2, 3, 4, 6, 7, 9, 10} :
       t[i] \in {"0", "1", "2", "3", "4", "5", "6", "7", "8", "9"}

C26_DateResolution ==
  call.fn = "resolveDateToken" =>
    IF call.token = Today
    THEN {call.returned} =
           DaysNumbered(LocalDayNumber(call.commitDate, call.timeZone), call.commitDate.year)
    ELSE IF call.token = Yesterday
    THEN {call.returned} =
           DaysNumbered(LocalDayNumber(call.commitDate, call.timeZone) - 1,
                        call.commitDate.year)
    ELSE IF DateShaped(call.token) THEN call.returned = call.token
    ELSE call.returned = NoString

\* 15:00 UTC on 31 December 2025 is 1 January 2026 in Tokyo, and the day
\* before that is back in 2025
C26_Witness ==
  /\ call.fn = "resolveDateToken"
  /\ call.token = Yesterday
  /\ call.commitDate = [year |-> 2025, month |-> 12, day |-> 31, hour |-> 15]
  /\ call.timeZone = TZ
  /\ call.returned = <<"2","0","2","5","-","1","2","-","3","1">>

(***************************************************************************)
(* C27. The suggestion ledger maps canonical keys to sets of aliases and   *)
(* only grows: every key of the ledger is a canonical key, no alias occurs *)
(* twice under a key, no alias once recorded is removed, and the tag index *)
(* is never changed.                                                       *)
(***************************************************************************)
Ledger == IF suggFile.exists THEN suggFile.data ELSE EmptyObject
LedgerKeysCanonical == \A k \in DOMAIN Ledger : InSeq(tagIndex.canonical, k)
LedgerHasSets ==
  \A k \in DOMAIN Ledger : \A i, j \in 1..Len(Ledger[k]) :
    Ledger[k][i] = Ledger[k][j] => i = j
LedgerGrows ==
  \A k \in DOMAIN Ledger : \A i \in 1..Len(Ledger[k]) :
    /\ k \in DOMAIN Ledger'
    /\ InSeq(Ledger'[k], Ledger[k][i])
C27_SuggestionLedger ==
  /\ [](LedgerKeysCanonical /\ LedgerHasSets)
  /\ [][LedgerGrows /\ tagIndex' = tagIndex]_vars
\* the parts of the statement that the harvest does keep
C27_LedgerGrowsAsSets == [](LedgerHasSets) /\ [][LedgerGrows /\ tagIndex' = tagIndex]_vars
C27_LedgerFilled == suggFile.exists /\ DOMAIN Ledger # {}

(***************************************************************************)
(* C30. Every line-shape, date, duration or classifier error of a run is   *)
(* in the ErrorLog and in the run summary: when a run has finished, its    *)
(* errored count is the number of ErrorLog entries it appended.            *)
(***************************************************************************)
C30_ErroredCount == pc = "done" => errorCount = Len(Appended)
\* a finished run that appended to the ErrorLog
C30_RunWithErrors == pc = "done" /\ Len(Appended) > 0

(***************************************************************************)
(* C28. Processing is strictly sequential: the loop goes through the       *)
(* commits one at a time and through the lines of a commit one at a time,  *)
(* at most one classifier request is outstanding, it is the request of the *)
(* line at hand, and while it is outstanding neither the position nor the  *)
(* day store changes: the day store is written for the line at hand only,  *)
(* after its request has returned or failed.                               *)
(***************************************************************************)
Position == <<ci, li>>
\* the position after <<c, l>> in the commits of the run; <<0, 0>> after the last
NextPosition(c, l) ==
  IF l < Len(Bodies[log[commits[c]].body]) THEN <<c, l + 1>>
  ELSE IF c < Len(commits) THEN <<c + 1, 1>>
  ELSE <<0, 0>>
\* the entries that a step adds to the day store
NewPlaces == {p \in Places' : p \notin Places}
C28_StrictlySequential ==
  /\ [](/\ Len(pending) <= 1
        /\ pending # <<>> => pc = "awaiting" /\ pending[1] = Position)
  /\ [][/\ (pending # <<>> /\ pending' # <<>>) => (Position' = Position /\ days' = days)
        /\ (pc \in {"loop", "awaiting"} /\ Position' # Position) =>
             Position' = NextPosition(ci, li)
        /\ (pc \in {"loop", "awaiting"}) =>
             \A p \in NewPlaces : days'[p[1]].entries[p[2]].source.commit = log[commits[ci]].sha
        /\ (pc \notin {"loop", "awaiting"}) => days' = days]_vars

\* a request is outstanding for a later line of a run after an earlier call of
\* the classifier in the run has returned and its line has been stored
C28_Witness ==
  /\ pc = "awaiting"
  /\ pending = <<Position>>
  /\ Len(llmLog) = 1
  /\ addedCount = 1

(***************************************************************************)
(* C29. Two concurrent runs on one storage are not safe: a run writes a    *)
(* day document as the document it read earlier plus its own entry,        *)
(* whatever the store holds by then, so that with two runs interleaved an  *)
(* entry that a run counted as added can be missing from the day store     *)
(* when both have finished; with one process no such entry is ever missing.*)
(***************************************************************************)
LostIds == {id \in added : PlacesOfId(id) = {}}
C29_StaleWriteLosesEntries ==
  /\ [](LostIds # {} => other # NoOther)
  /\ [][(pc = "write" /\ pc' # "write" /\ other' = other) =>
          LET d == snapshot.daily.date
          IN /\ d \in DOMAIN days'
             /\ Len(days'[d].entries) = Len(snapshot.daily.entries) + 1
             /\ SubSeq(days'[d].entries, 1, Len(snapshot.daily.entries))
                  = snapshot.daily.entries
             /\ days'[d].entries[Len(days'[d].entries)].id = last'.id
             /\ last'.id \in added'
             /\ \A e \in DOMAIN days : e # d => days'[e] = days[e]]_vars

\* both runs have finished, each printed its summary, and an entry that one of
\* them counted as added is in no day document
C29_Witness ==
  /\ pc = "done" /\ other # NoOther /\ other.pc = "done"
  /\ addedCount > 0 /\ other.addedCount > 0
  /\ LostIds # {}

(***************************************************************************)
(* C31. Across all day stores an entry id occurs at most once, whatever    *)
(* runs have taken place and whether or not the configured timezone was    *)
(* changed between them: a line stored under one date by an earlier run is *)
(* not stored again under another date.                                    *)
(***************************************************************************)
C31_IdOnceAcrossStores ==
  \A p, q \in Places : EntryAt(p).id = EntryAt(q).id => p = q

(***************************************************************************)
(* C32. The ErrorLog is append-only and replay-safe: a run keeps every     *)
(* earlier record of the ErrorLog, unchanged and in order, and when a run  *)
(* over an unchanged history has finished the ErrorLog has at most one     *)
(* record for an id and a reason, so that a commit examined again in the   *)
(* recent-N window does not have its malformed line recorded again.        *)
(***************************************************************************)
PersistedErrors == IF errorsFile.exists THEN errorsFile.data ELSE <<>>
SameError(a, b) == a.id = b.id /\ a.reason = b.reason /\ a.message = b.message
ErrorsRecordedOnce ==
  \A i, j \in 1..Len(PersistedErrors) :
    SameError(PersistedErrors[i], PersistedErrors[j]) => i = j
ErrorLogAppendOnly == IsPrefix(PersistedErrors, PersistedErrors')
C32_ErrorLogReplaySafe ==
  /\ [][ErrorLogAppendOnly]_vars
  /\ [](replay /\ pc = "done" => ErrorsRecordedOnce)
\* the part of the statement that holds: nothing is removed or changed
C32_AppendOnlyPart == [][ErrorLogAppendOnly]_vars

(***************************************************************************)
(* C33. Whenever no run is in progress, runs interrupted at any step       *)
(* included, if the persisted watermark covers a commit then every time:   *)
(* line of the commit whose date or duration did not resolve has a record  *)
(* in the persisted ErrorLog.                                              *)
(***************************************************************************)
ErrorPersisted(sha, l) ==
  \E i \in 1..Len(PersistedErrors) :
    /\ PersistedErrors[i].id = <<"sha", sha, TimeLinesBefore(log[sha].body, l)>>
    /\ PersistedErrors[i].reason = "invalid date or duration"
CoveredErrorsPersisted ==
  stateFile.exists =>
    \A sha \in 1..stateFile.data.last_processed : \A l \in 1..Len(linesOf(sha)) :
      Malformed(sha, l) => ErrorPersisted(sha, l)
C33_ErrorsSurviveWatermark ==
  pc \in {"idle", "done", "crashed"} => CoveredErrorsPersisted
\* a finished run has a malformed line of a covered commit in the ErrorLog
C33_CoveredAndRecorded ==
  /\ pc = "done" /\ stateFile.exists
  /\ \E sha \in 1..stateFile.data.last_processed : \E l \in 1..Len(linesOf(sha)) :
       Malformed(sha, l) /\ ErrorPersisted(sha, l)

====
